---- MODULE Spec2Model ----
(***************************************************************************)
(* Fashioning.ai backend: the Index Facade (AlgoliaService) with its       *)
(* per-call fallback to the Synthetic Dataset (mock_data), and the         *)
(* Aggregation Pipeline (FashionScraperService.enrich_algolia_data).       *)
(*                                                                         *)
(* Text that the code lower-cases or searches for substrings is a sequence *)
(* of one-character strings; text that is only compared for equality is a  *)
(* TLA+ string.  An Optional[...] argument is a sequence of length at most *)
(* one: None is <<>> and a supplied value v is <<v>>.  Floats with two     *)
(* decimals are integers in hundredths (0.92 is 92).                       *)
(***************************************************************************)
EXTENDS Integers, Sequences, FiniteSets, TLC

(***************************************************************************)
(* Bounds of the model.                                                    *)
(***************************************************************************)
MaxPage == 2
MaxPerPage == 3
NumCallers == 2
MaxArticles == 2
MaxSiteArticles == 2
MaxClock == 2
MaxRequests == 2

(***************************************************************************)
(* Python helpers.                                                         *)
(***************************************************************************)
None == <<>>
Some(v) == <<v>>
IsNone(o) == o = <<>>
Val(o) == o[1]

UpperChars == <<"A","B","C","D","E","F","G","H","I","J","K","L","M",
                "N","O","P","Q","R","S","T","U","V","W","X","Y","Z">>
LowerChars == <<"a","b","c","d","e","f","g","h","i","j","k","l","m",
                "n","o","p","q","r","s","t","u","v","w","x","y","z">>

\* str.lower() on one character
UpperToLower == [i \in 1..Len(UpperChars) |-> LowerChars[i]]

UpperIndex == [c \in { UpperChars[i] : i \in 1..Len(UpperChars) } |->
                  CHOOSE i \in 1..Len(UpperChars) : UpperChars[i] = c]

LowerChar(c) == IF c \in DOMAIN UpperIndex THEN UpperToLower[UpperIndex[c]] ELSE c

\* str.lower()
Lower(s) == [i \in 1..Len(s) |-> LowerChar(s[i])]

\* needle in hay (substring test; the empty needle occurs in every string)
Contains(needle, hay) ==
    \E i \in 0..(Len(hay) - Len(needle)) :
        \A j \in 1..Len(needle) : hay[i + j] = needle[j]

\* x in list
InList(x, list) == \E i \in 1..Len(list) : list[i] = x

\* list[a:b] with Python's clamping of negative and out-of-range indices
PyIndexClamp(i, n) ==
    IF i < 0 THEN (IF i + n < 0 THEN 0 ELSE i + n)
    ELSE (IF i > n THEN n ELSE i)

PySlice(list, a, b) ==
    LET lo == PyIndexClamp(a, Len(list))
        hi == PyIndexClamp(b, Len(list))
    IN  IF lo >= hi THEN <<>> ELSE SubSeq(list, lo + 1, hi)

\* a // b for b # 0 (floor division, also for a negative divisor)
PyFloorDiv(a, b) == IF b > 0 THEN a \div b ELSE (0 - a) \div (0 - b)

(***************************************************************************)
(* mock_data.py: the Synthetic Dataset.                                    *)
(***************************************************************************)
Name_trend_001 ==
    <<"S","u","s","t","a","i","n","a","b","l","e"," ","L","u","x","u","r","y"," ","F","a","s",
    "h","i","o","n">>

Desc_trend_001 ==
    <<"H","i","g","h","-","e","n","d"," ","f","a","s","h","i","o","n"," ","b","r","a","n","d",
    "s"," ","e","m","b","r","a","c","i","n","g"," ","e","c","o","-","f","r","i","e","n","d","l",
    "y"," ","m","a","t","e","r","i","a","l","s"," ","a","n","d"," ","e","t","h","i","c","a","l",
    " ","p","r","o","d","u","c","t","i","o","n"," ","m","e","t","h","o","d","s">>

Name_trend_002 ==
    <<"Y","2","K"," ","R","e","v","i","v","a","l"," ","S","t","r","e","e","t","w","e","a","r">>

Desc_trend_002 ==
    <<"E","a","r","l","y"," ","2","0","0","0","s"," ","f","a","s","h","i","o","n"," ","m","a",
    "k","i","n","g"," ","a"," ","c","o","m","e","b","a","c","k"," ","w","i","t","h"," ","m","e",
    "t","a","l","l","i","c"," ","f","a","b","r","i","c","s"," ","a","n","d"," ","f","u","t","u",
    "r","i","s","t","i","c"," ","a","c","c","e","s","s","o","r","i","e","s">>

Name_trend_003 ==
    <<"M","i","n","i","m","a","l","i","s","t"," ","A","t","h","l","e","i","s","u","r","e">>

Desc_trend_003 ==
    <<"C","l","e","a","n",","," ","s","i","m","p","l","e"," ","a","t","h","l","e","t","i","c",
    " ","w","e","a","r"," ","t","h","a","t"," ","s","e","a","m","l","e","s","s","l","y"," ","t",
    "r","a","n","s","i","t","i","o","n","s"," ","f","r","o","m"," ","g","y","m"," ","t","o"," ",
    "s","t","r","e","e","t">>

Cat_luxury ==
    <<"l","u","x","u","r","y">>

Cat_streetwear ==
    <<"s","t","r","e","e","t","w","e","a","r">>

Cat_sustainable ==
    <<"s","u","s","t","a","i","n","a","b","l","e">>

Cat_casual ==
    <<"c","a","s","u","a","l">>

Cat_formal ==
    <<"f","o","r","m","a","l">>

Cat_vintage ==
    <<"v","i","n","t","a","g","e">>

Cat_minimalist ==
    <<"m","i","n","i","m","a","l","i","s","t">>

Cat_maximalist ==
    <<"m","a","x","i","m","a","l","i","s","t">>

Cat_athleisure ==
    <<"a","t","h","l","e","i","s","u","r","e">>

Cat_avant_garde ==
    <<"a","v","a","n","t","-","g","a","r","d","e">>

\* SAMPLE_TRENDS, in declaration order (trend_score in hundredths)
SAMPLE_TRENDS == <<
    [objectID |-> "trend_001", name |-> Name_trend_001, category |-> Cat_luxury,
     description |-> Desc_trend_001, regions |-> <<"Global">>,
     source |-> "Vogue Runway", trend_score |-> 92],
    [objectID |-> "trend_002", name |-> Name_trend_002, category |-> Cat_streetwear,
     description |-> Desc_trend_002, regions |-> <<"North America", "Europe">>,
     source |-> "Vogue Runway", trend_score |-> 85],
    [objectID |-> "trend_003", name |-> Name_trend_003, category |-> Cat_athleisure,
     description |-> Desc_trend_003, regions |-> <<"North America", "Asia Pacific">>,
     source |-> "Vogue Runway", trend_score |-> 78] >>

SAMPLE_CATEGORIES ==
    << Cat_luxury, Cat_streetwear, Cat_sustainable, Cat_casual, Cat_formal,
       Cat_vintage, Cat_minimalist, Cat_maximalist, Cat_athleisure, Cat_avant_garde >>

SAMPLE_REGIONS ==
    << "Global", "North America", "Europe", "Asia Pacific",
       "Australia", "Africa", "South America" >>

(***************************************************************************)
(* Outcome of a call: a returned value or a raised exception.              *)
(***************************************************************************)
Returned(v) == [kind |-> "return", value |-> v]
Raised(e) == [kind |-> "raise", exception |-> e]
IsRaise(r) == r.kind = "raise"

(***************************************************************************)
(* models/trend.py                                                         *)
(***************************************************************************)
\* the required fields of Trend that the model carries
TrendRequiredFields ==
    {"objectID", "name", "category", "description", "regions", "source", "trend_score"}

\* Trend(**d): pydantic validation, raising ValidationError on a missing field
TrendValid(d) == TrendRequiredFields \subseteq DOMAIN d

\* TrendResponse(hits=..., total=..., page=..., pages=..., facets=..., processing_time=...)
TrendResponse(hits, total, page, pages, facets, processing_time) ==
    [hits |-> hits, total |-> total, page |-> page, pages |-> pages,
     facets |-> facets, processing_time |-> processing_time, error |-> None]

(***************************************************************************)
(* mock_data.get_mock_trends_response                                      *)
(* A list comprehension [t for t in trends if cond] is SelectSeq.          *)
(***************************************************************************)
\* if query: keep the trends whose name, description or category contains query.lower()
MatchesQuery(trend, query) ==
    LET query_lower == Lower(query)
    IN  \/ Contains(query_lower, Lower(trend.name))
        \/ Contains(query_lower, Lower(trend.description))
        \/ Contains(query_lower, Lower(trend.category))

\* a category filter that compares case-sensitively
MatchesCategory_CaseSensitive(trend, category) == trend.category = category

\* if category: keep the trends whose category.lower() == category.lower()
MatchesCategory(trend, category) == Lower(trend.category) = Lower(category)

\* if region: keep the trends with region in trend["regions"]
MatchesRegion(trend, region) == InList(region, trend.regions)

\* Python truthiness of an Optional[str]: None and "" are falsy
Truthy(o) == ~IsNone(o) /\ Len(Val(o)) > 0

FilterByQuery(trends, query) ==
    IF Len(query) > 0
    THEN LET Keep(t) == MatchesQuery(t, query) IN SelectSeq(trends, Keep)
    ELSE trends

FilterByCategory(trends, category) ==
    IF Truthy(category)
    THEN LET Keep(t) == MatchesCategory(t, Val(category)) IN SelectSeq(trends, Keep)
    ELSE trends

FilterByRegion(trends, region) ==
    IF Truthy(region)
    THEN LET Keep(t) == MatchesRegion(t, Val(region)) IN SelectSeq(trends, Keep)
    ELSE trends

filtered_trends(query, category, region) ==
    FilterByRegion(FilterByCategory(FilterByQuery(SAMPLE_TRENDS, query), category), region)

\* a slice that takes page as one-based
paginated_trends_OneBased(filtered, page, per_page) ==
    PySlice(filtered, (page - 1) * per_page, (page - 1) * per_page + per_page)

\* paginated_trends = filtered_trends[start_idx:end_idx]
paginated_trends(filtered, page, per_page) ==
    LET start_idx == page * per_page
        end_idx   == start_idx + per_page
    IN  PySlice(filtered, start_idx, end_idx)

\* a page count that rounds down
PageCount_Floor(total, per_page) == PyFloorDiv(total, per_page)

\* pages=(total + per_page - 1) // per_page, for per_page # 0
PageCount(total, per_page) == PyFloorDiv(total + per_page - 1, per_page)

\* the facets literal of the response
MockFacets ==
    [category |-> (Cat_luxury :> 1) @@ (Cat_streetwear :> 1) @@ (Cat_athleisure :> 1)
                  @@ (Cat_casual :> 1) @@ (Cat_avant_garde :> 1),
     regions  |-> ("Global" :> 2) @@ ("North America" :> 3) @@ ("Europe" :> 3)
                  @@ ("Asia Pacific" :> 1)]

\* processing_time=0.05, in hundredths
MockProcessingTime == 5

get_mock_trends_response(query, category, region, page, per_page) ==
    LET filtered == filtered_trends(query, category, region)
        total    == Len(filtered)
        trends   == paginated_trends(filtered, page, per_page)
    IN  IF \E i \in 1..Len(trends) : ~TrendValid(trends[i])
        THEN Raised("ValidationError")
        ELSE IF per_page = 0
        THEN Raised("ZeroDivisionError")
        ELSE Returned(TrendResponse(trends, total, page, PageCount(total, per_page),
                                    MockFacets, MockProcessingTime))

get_mock_categories == SAMPLE_CATEGORIES

get_mock_regions == SAMPLE_REGIONS

\* a lookup that raises for an unknown id instead of returning None
get_mock_trend_by_id_Raises(trend_id) ==
    IF \E i \in 1..Len(SAMPLE_TRENDS) : SAMPLE_TRENDS[i].objectID = trend_id
    THEN Returned(Some(SAMPLE_TRENDS[CHOOSE i \in 1..Len(SAMPLE_TRENDS) :
                                        SAMPLE_TRENDS[i].objectID = trend_id]))
    ELSE Raised("KeyError")

\* first trend of SAMPLE_TRENDS with that objectID, else None
get_mock_trend_by_id(trend_id) ==
    IF \E i \in 1..Len(SAMPLE_TRENDS) : SAMPLE_TRENDS[i].objectID = trend_id
    THEN LET i == CHOOSE i \in 1..Len(SAMPLE_TRENDS) :
                      /\ SAMPLE_TRENDS[i].objectID = trend_id
                      /\ \A j \in 1..(i - 1) : SAMPLE_TRENDS[j].objectID # trend_id
         IN  IF TrendValid(SAMPLE_TRENDS[i])
             THEN Returned(Some(SAMPLE_TRENDS[i]))
             ELSE Raised("ValidationError")
    ELSE Returned(None)

(***************************************************************************)
(* State.                                                                  *)
(*   async_client    AlgoliaService.async_client: "None" or "SearchClient" *)
(*   pc, req, ret    per caller: position of the facade coroutine it runs, *)
(*                   its request and its outcome                           *)
(*   remote          per caller: what became of the call's remote request  *)
(*   path            per caller: which backend answered ("live"/"fallback")*)
(*   after_failure   per caller: the call began after some remote failure  *)
(*   remote_failed   some remote request has failed so far                 *)
(*   mock_call, mock_ret   a direct call of a mock_data function           *)
(*   agg_pc, fetch, results, agg_ret   one run of enrich_algolia_data      *)
(*   replies, task   the replies of POST /enrich-trends per request, and   *)
(*                   the request whose background task is running          *)
(*   scr_call, scr_ret   a direct call of a FashionTrendScraper method     *)
(*   crawl_pc, crawl_site, crawl_clock, crawl_trends   one run of          *)
(*                   FashionTrendScraper.scrape_all_sites                  *)
(*   phase, closes   the process ("serving"/"stopped") and the number of   *)
(*                   close() calls made on the remote handle               *)
(*   is_configured, gem_call, gem_ret, gem_inner   GeminiService, a call   *)
(*                   of it and the call made from within chat_response     *)
(*   session, sess_opened, sess_closes, sess_pc, sess_own, sess_bound,     *)
(*   sess_inflight                                                         *)
(*                   FashionScraperService.session, the sessions created   *)
(*                   so far and the close() calls on each, and per         *)
(*                   background task its position, the session it created, *)
(*                   the session its fetches use and the fetches still in  *)
(*                   flight                                                *)
(*   dataset, api_call, api_ret, api_prev   the module-level lists of      *)
(*                   mock_data, a call of a route or facade operation with *)
(*                   its outcome, and the call before it                   *)
(*   scraper_client, scraper_attrs, run_pc, run_ret, uploaded   a          *)
(*                   FashionTrendScraper made by main(): its client, the   *)
(*                   attributes __init__ has assigned, the position and    *)
(*                   outcome of run() and the objects saved remotely       *)
(***************************************************************************)
VARIABLES async_client, pc, req, ret, remote, path, after_failure, remote_failed,
          mock_call, mock_ret,
          agg_pc, fetch, results, agg_ret,
          replies, task,
          scr_call, scr_ret, crawl_pc, crawl_site, crawl_clock, crawl_trends,
          phase, closes,
          is_configured, gem_call, gem_ret, gem_inner,
          session, sess_opened, sess_closes, sess_pc, sess_own, sess_bound, sess_inflight,
          dataset, api_call, api_ret, api_prev,
          scraper_client, scraper_attrs, run_pc, run_ret, uploaded

facade_vars == <<async_client, pc, req, ret, remote, path, after_failure, remote_failed>>
mock_vars == <<mock_call, mock_ret>>
agg_vars == <<agg_pc, fetch, results, agg_ret>>
route_vars == <<replies, task>>
scraper_vars == <<scr_call, scr_ret, crawl_pc, crawl_site, crawl_clock, crawl_trends>>
life_vars == <<phase, closes>>
gem_vars == <<is_configured, gem_call, gem_ret, gem_inner>>
sess_vars ==
    <<session, sess_opened, sess_closes, sess_pc, sess_own, sess_bound, sess_inflight>>
api_vars == <<dataset, api_call, api_ret, api_prev>>
script_vars == <<scraper_client, scraper_attrs, run_pc, run_ret, uploaded>>
more_vars == <<sess_vars, api_vars, script_vars>>
sess_frame ==
    <<facade_vars, mock_vars, agg_vars, route_vars, scraper_vars, life_vars, gem_vars,
      api_vars, script_vars>>
rest_vars == <<scraper_vars, life_vars, gem_vars, more_vars>>
ext_vars == <<route_vars, rest_vars>>
vars == <<facade_vars, mock_vars, agg_vars, route_vars, scraper_vars, life_vars, gem_vars,
          more_vars>>

Callers == 1..NumCallers

(***************************************************************************)
(* Inputs.                                                                 *)
(***************************************************************************)
Empty == <<>>

Queries ==
    { Empty, <<"s","t","r","e","e","t">>, <<"L","U","X","U","R","Y">>,
      <<"f","a","s","h","i","o","n">>, <<"Y","2","k">>, <<"z","z","z">> }

Categories ==
    { None, Some(Empty), Some(<<"L","u","x","u","r","y">>), Some(Cat_streetwear),
      Some(Cat_casual) }

Regions ==
    { None, Some(""), Some("Global"), Some("North America"), Some("europe") }

Pages == 0..MaxPage

PerPages == ((0 - 1)..MaxPerPage) \cup {20}

SearchArgs ==
    [query : Queries, category : Categories, region : Regions,
     page : Pages, per_page : PerPages]

\* the requests of the interleaved callers: one value of each kind per argument
FewSearchArgs ==
    [query : {Empty, <<"s","t","r","e","e","t">>}, category : {None},
     region : {None}, page : {0}, per_page : {0, 20}]

TrendIds == {"trend_001", "trend_002", "trend_003", "trend_999", "live_001", ""}

FewTrendIds == {"trend_001", "live_001"}

FacetNames == {"category", "regions", "brand"}

FewFacetNames == {"category"}

NoReq ==
    [op |-> "none", query |-> Empty, category |-> None, region |-> None,
     page |-> 0, per_page |-> 0, trend_id |-> "", facet_name |-> ""]

SearchReq(a) ==
    [NoReq EXCEPT !.op = "search", !.query = a.query, !.category = a.category,
                  !.region = a.region, !.page = a.page, !.per_page = a.per_page]

GetReq(trend_id) == [NoReq EXCEPT !.op = "get", !.trend_id = trend_id]

FacetReq(facet_name) == [NoReq EXCEPT !.op = "facet", !.facet_name = facet_name]

NoRet == [kind |-> "none"]

(***************************************************************************)
(* The remote backend (Algolia), as the facade sees it: each request       *)
(* either answers or raises.                                               *)
(***************************************************************************)
\* a record of the remote index
LiveTrend ==
    [objectID |-> "live_001", name |-> <<"L","i","v","e">>, category |-> Cat_formal,
     description |-> <<"l","i","v","e">>, regions |-> <<"Europe">>,
     source |-> "Algolia", trend_score |-> 50]

\* a record of the remote index that lacks a required field of Trend
MalformedHit == [objectID |-> "live_002", name |-> <<"B","a","d">>]

RemoteObjects == {LiveTrend, MalformedHit}

RemoteErrors == {"network", "auth"}

\* what search_single_index can answer
RemoteSearchResponses(page) ==
    { [hits |-> h, nb_hits |-> Len(h), page |-> page, nb_pages |-> Len(h),
       facets |-> [category |-> <<>>, regions |-> <<>>], processing_time_ms |-> 1] :
      h \in { <<>>, <<LiveTrend>>, <<LiveTrend, MalformedHit>> } }

\* what get_object can answer: the object of that objectID; an unknown id raises
RemoteGetResponses(trend_id) == { o \in RemoteObjects : o.objectID = trend_id }

\* what search_for_facet_values can answer
RemoteFacetResponses(facet_name) ==
    IF facet_name = "category" THEN { <<Cat_formal>>, <<>> }
    ELSE IF facet_name = "regions" THEN { <<"Europe">> }
    ELSE {}

(***************************************************************************)
(* algolia_service.py: AlgoliaService                                      *)
(***************************************************************************)
\* __init__: no handle unless both credentials are set
AlgoliaService_init(configured) == IF configured THEN "SearchClient" ELSE "None"

\* a fallback that forgets the page
SearchFallback_FirstPage(query, category, region, page, per_page) ==
    get_mock_trends_response(query, category, region, 0, per_page)

\* get_mock_trends_response(query, category, region, page, per_page), as the
\* facade calls it when unconfigured and in its except branch
SearchFallback(query, category, region, page, per_page) ==
    get_mock_trends_response(query, category, region, page, per_page)

\* get_mock_trend_by_id(trend_id), as the facade calls it
GetFallback(trend_id) == get_mock_trend_by_id(trend_id)

\* the facet fallback: the mock list of the facet, [] for any other name
FacetFallback(facet_name) ==
    IF facet_name = "category" THEN Returned(get_mock_categories)
    ELSE IF facet_name = "regions" THEN Returned(get_mock_regions)
    ELSE Returned(<<>>)

\* the try body of search_trends after the await: convert the hits, build the response
SearchLive(response) ==
    IF \E i \in 1..Len(response.hits) : ~TrendValid(response.hits[i])
    THEN Raised("ValidationError")
    ELSE Returned(TrendResponse(response.hits, response.nb_hits, response.page,
                                response.nb_pages, response.facets,
                                response.processing_time_ms))

\* the try body of get_trend_by_id after the await: Trend(**response)
GetLive(response) ==
    IF TrendValid(response) THEN Returned(Some(response)) ELSE Raised("ValidationError")

\* a facade whose except branch drops the handle after a failure
ClientAfterError_Disable(client) == "None"

\* the except branches leave self.async_client as it is
ClientAfterError(client) == client

\* a call begins: without a handle it is answered by the fallback at once,
\* otherwise the remote request is sent and the coroutine awaits it
Begin(c, r, fallback) ==
    /\ pc[c] = "idle"
    /\ req' = [req EXCEPT ![c] = r]
    /\ after_failure' = [after_failure EXCEPT ![c] = remote_failed]
    /\ IF async_client = "None"
       THEN /\ pc' = [pc EXCEPT ![c] = "returned"]
            /\ ret' = [ret EXCEPT ![c] = fallback]
            /\ path' = [path EXCEPT ![c] = "fallback"]
            /\ remote' = [remote EXCEPT ![c] = "none"]
       ELSE /\ pc' = [pc EXCEPT ![c] = "awaiting"]
            /\ remote' = [remote EXCEPT ![c] = "pending"]
            /\ UNCHANGED <<ret, path>>
    /\ UNCHANGED <<async_client, remote_failed, mock_vars, agg_vars, ext_vars>>

\* the awaited remote request answered and the try body ran to its return
Live(c, result) ==
    /\ pc' = [pc EXCEPT ![c] = "returned"]
    /\ ret' = [ret EXCEPT ![c] = result]
    /\ path' = [path EXCEPT ![c] = "live"]
    /\ remote' = [remote EXCEPT ![c] = "ok"]
    /\ UNCHANGED <<async_client, req, after_failure, remote_failed, mock_vars, agg_vars, ext_vars>>

\* the try body raised (the request itself, or the conversion of its answer):
\* the except branch answers from the fallback
Except(c, cause, fallback) ==
    /\ pc' = [pc EXCEPT ![c] = "returned"]
    /\ ret' = [ret EXCEPT ![c] = fallback]
    /\ path' = [path EXCEPT ![c] = "fallback"]
    /\ remote' = [remote EXCEPT ![c] = cause]
    /\ remote_failed' = TRUE
    /\ async_client' = ClientAfterError(async_client)
    /\ UNCHANGED <<req, after_failure, mock_vars, agg_vars, ext_vars>>

SearchTrendsCall(c, a) ==
    Begin(c, SearchReq(a),
          SearchFallback(a.query, a.category, a.region, a.page, a.per_page))

SearchTrendsAnswer(c) ==
    /\ pc[c] = "awaiting" /\ req[c].op = "search"
    /\ \E response \in RemoteSearchResponses(req[c].page) :
          IF IsRaise(SearchLive(response))
          THEN Except(c, "malformed",
                      SearchFallback(req[c].query, req[c].category, req[c].region,
                                     req[c].page, req[c].per_page))
          ELSE Live(c, SearchLive(response))

SearchTrendsError(c) ==
    /\ pc[c] = "awaiting" /\ req[c].op = "search"
    /\ \E e \in RemoteErrors :
          Except(c, e, SearchFallback(req[c].query, req[c].category, req[c].region,
                                      req[c].page, req[c].per_page))

GetTrendByIdCall(c, trend_id) == Begin(c, GetReq(trend_id), GetFallback(trend_id))

GetTrendByIdAnswer(c) ==
    /\ pc[c] = "awaiting" /\ req[c].op = "get"
    /\ \E response \in RemoteGetResponses(req[c].trend_id) :
          IF IsRaise(GetLive(response))
          THEN Except(c, "malformed", GetFallback(req[c].trend_id))
          ELSE Live(c, GetLive(response))

\* get_object raises for an unknown objectID as for any other failure
GetTrendByIdError(c) ==
    /\ pc[c] = "awaiting" /\ req[c].op = "get"
    /\ \E e \in RemoteErrors \cup {"not_found"} :
          /\ e = "not_found" => RemoteGetResponses(req[c].trend_id) = {}
          /\ Except(c, e, GetFallback(req[c].trend_id))

GetFacetValuesCall(c, facet_name) ==
    Begin(c, FacetReq(facet_name), FacetFallback(facet_name))

GetFacetValuesAnswer(c) ==
    /\ pc[c] = "awaiting" /\ req[c].op = "facet"
    /\ \E values \in RemoteFacetResponses(req[c].facet_name) :
          Live(c, Returned(values))

GetFacetValuesError(c) ==
    /\ pc[c] = "awaiting" /\ req[c].op = "facet"
    /\ \E e \in RemoteErrors \cup {"bad_facet"} :
          /\ e = "bad_facet" => RemoteFacetResponses(req[c].facet_name) = {}
          /\ Except(c, e, FacetFallback(req[c].facet_name))

\* the caller takes the outcome; the coroutine is gone
Complete(c) ==
    /\ pc[c] = "returned"
    /\ pc' = [pc EXCEPT ![c] = "idle"]
    /\ req' = [req EXCEPT ![c] = NoReq]
    /\ ret' = [ret EXCEPT ![c] = NoRet]
    /\ remote' = [remote EXCEPT ![c] = "none"]
    /\ path' = [path EXCEPT ![c] = "none"]
    /\ after_failure' = [after_failure EXCEPT ![c] = FALSE]
    /\ UNCHANGED <<async_client, remote_failed, mock_vars, agg_vars, ext_vars>>

(***************************************************************************)
(* Direct calls of the Synthetic Dataset.                                  *)
(***************************************************************************)
CallMockSearch(a) ==
    /\ mock_call = NoReq
    /\ mock_call' = SearchReq(a)
    /\ mock_ret' = get_mock_trends_response(a.query, a.category, a.region, a.page, a.per_page)
    /\ UNCHANGED <<facade_vars, agg_vars, ext_vars>>

CallMockTrendById(trend_id) ==
    /\ mock_call = NoReq
    /\ mock_call' = GetReq(trend_id)
    /\ mock_ret' = get_mock_trend_by_id(trend_id)
    /\ UNCHANGED <<facade_vars, agg_vars, ext_vars>>

CallMockCategories ==
    /\ mock_call = NoReq
    /\ mock_call' = FacetReq("category")
    /\ mock_ret' = Returned(get_mock_categories)
    /\ UNCHANGED <<facade_vars, agg_vars, ext_vars>>

CallMockRegions ==
    /\ mock_call = NoReq
    /\ mock_call' = FacetReq("regions")
    /\ mock_ret' = Returned(get_mock_regions)
    /\ UNCHANGED <<facade_vars, agg_vars, ext_vars>>

(***************************************************************************)
(* fashion_scraper_service.py: the source adapters.                        *)
(***************************************************************************)
Src_Vogue ==
    <<"V","o","g","u","e">>

Src_BoF ==
    <<"B","u","s","i","n","e","s","s"," ","o","f"," ","F","a","s","h","i","o","n">>

Src_WhoWhatWear ==
    <<"W","h","o"," ","W","h","a","t"," ","W","e","a","r">>

Src_Instagram ==
    <<"I","n","s","t","a","g","r","a","m">>

Src_FastFashion ==
    <<"F","a","s","t"," ","F","a","s","h","i","o","n">>

Src_Zara ==
    <<"Z","a","r","a","/","A","S","O","S","/","H","&","M">>

\* the tasks of enrich_algolia_data, in the order of its list
Adapters == 1..5

\* the adapters that fetch a page; the other two return literal lists
WebAdapters == {1, 2, 3}

\* source_name of task i: the list literal of the result loop
SourceNames == << Src_Vogue, Src_BoF, Src_WhoWhatWear, Src_Instagram, Src_FastFashion >>

\* articles[:10]
ArticleLimit == 10

\* an article element: its h1/h2/h3 text, None when it has no such element
ArticleTitles == { None, Some("Denim") }

\* the pages a fetch can deliver: up to MaxArticles article elements
RECURSIVE SeqsUpTo(_, _)
SeqsUpTo(S, n) ==
    IF n = 0 THEN { <<>> }
    ELSE LET shorter == SeqsUpTo(S, n - 1)
         IN  shorter \cup { Append(s, x) : s \in { t \in shorter : Len(t) = n - 1 }, x \in S }

WebPages == SeqsUpTo(ArticleTitles, MaxArticles)

\* title_elem.get_text().strip() if title_elem else <default>
TitleOf(article, default) == IF IsNone(article) THEN default ELSE Val(article)

\* trend_data of one article, per adapter
VogueTrend(article) ==
    [name |-> TitleOf(article, "Unknown Trend"), category |-> "luxury",
     source |-> Src_Vogue, trend_score |-> 85, regions |-> <<"Global">>]

BofTrend(article) ==
    [name |-> TitleOf(article, "Business Trend"), category |-> "business",
     source |-> Src_BoF, trend_score |-> 80, regions |-> <<"Global">>]

WhoWhatWearTrend(article) ==
    [name |-> TitleOf(article, "Street Style Trend"), category |-> "streetwear",
     source |-> Src_WhoWhatWear, trend_score |-> 75, regions |-> <<"Global">>]

WebTrend(a, article) ==
    IF a = 1 THEN VogueTrend(article)
    ELSE IF a = 2 THEN BofTrend(article)
    ELSE WhoWhatWearTrend(article)

\* scrape_vogue_trends / scrape_bof_news / scrape_whowhatwear_styles: the
\* trends of the first ArticleLimit articles of a 200 answer; [] for any other
\* status; [] from the except branch when the fetch raises
ScrapeWeb(a, outcome) ==
    IF outcome.kind = "raised" THEN <<>>
    ELSE IF outcome.kind = "status" THEN <<>>
    ELSE LET articles == PySlice(outcome.page, 0, ArticleLimit)
         IN  [i \in 1..Len(articles) |-> WebTrend(a, articles[i])]

\* scrape_instagram_trends
InstagramTrends ==
    << [name |-> "Y2K Fashion Revival", category |-> "vintage",
        source |-> Src_Instagram, trend_score |-> 90, regions |-> <<"Global">>],
       [name |-> "Cottagecore Aesthetic", category |-> "sustainable",
        source |-> Src_Instagram, trend_score |-> 80, regions |-> <<"Global">>] >>

\* scrape_fast_fashion_trends
FastFashionTrends ==
    << [name |-> "Oversized Blazer Trend", category |-> "casual",
        source |-> Src_Zara, trend_score |-> 85, regions |-> <<"Global">>],
       [name |-> "Athleisure Evolution", category |-> "athleisure",
        source |-> Src_Zara, trend_score |-> 90, regions |-> <<"Global">>] >>

\* what session.get can do: raise, answer another status, answer 200 with a page
FetchOutcomes ==
    { [kind |-> "raised", page |-> <<>>], [kind |-> "status", page |-> <<>>] }
    \cup { [kind |-> "ok", page |-> p] : p \in WebPages }

NoFetch == [kind |-> "none", page |-> <<>>]

\* a result of gather(..., return_exceptions=True): a list, or the exception
\* that escaped the task
ListResult(items) == [kind |-> "list", items |-> items]
ExceptionResult == [kind |-> "exception", items |-> <<>>]
Pending == [kind |-> "pending", items |-> <<>>]

(***************************************************************************)
(* fashion_scraper_service.py: enrich_algolia_data, and its caller         *)
(* data_enrichment.perform_enrichment.                                     *)
(***************************************************************************)
\* the tasks whose result is not an exception, i.e. those the loop does not skip
Collected(rs) == { i \in Adapters : rs[i].kind # "exception" }

\* all_trends after the result loop: the lists, extended in task order
RECURSIVE AllTrendsFrom(_, _)
AllTrendsFrom(rs, i) ==
    IF i > Len(rs) THEN <<>>
    ELSE (IF rs[i].kind = "exception" THEN <<>> ELSE rs[i].items)
         \o AllTrendsFrom(rs, i + 1)

\* a result loop that puts each list in front of what it has collected
all_trends_LaterFirst(rs) ==
    AllTrendsFrom(rs, 4) \o rs[3].items \o rs[2].items \o rs[1].items

all_trends(rs) == AllTrendsFrom(rs, 1)

\* source_stats after the result loop
source_stats(rs) ==
    [n \in { SourceNames[i] : i \in Collected(rs) } |->
        Len(rs[CHOOSE i \in Collected(rs) : SourceNames[i] = n].items)]

\* source_name as the result loop leaves it: that of the last task not skipped
LastSourceName(rs) ==
    SourceNames[CHOOSE i \in Collected(rs) : \A j \in Collected(rs) : j <= i]

\* f"scraped_{source_name.lower()}_{i}_{int(datetime.now().timestamp())}": the
\* three parts of the string, which determine it and are determined by it
ObjectID(source_name, i, ts) == [source |-> Lower(source_name), seq |-> i, ts |-> ts]

\* the id loop: trend i (from 0) gets its objectID; the clock second may
\* advance once while the loop runs, before trend number tick
WithIds(trends, source_name, tick) ==
    [i \in 1..Len(trends) |->
        [name |-> trends[i].name, category |-> trends[i].category,
         source |-> trends[i].source, trend_score |-> trends[i].trend_score,
         regions |-> trends[i].regions,
         objectID |-> ObjectID(source_name, i - 1, IF i - 1 < tick THEN 0 ELSE 1)]]

\* an id loop that looks the source name up by the trend's index: IndexError,
\* caught by the except branch, once there are more trends than sources
enrich_result_IndexNames(rs, tick) ==
    IF Len(all_trends(rs)) > Len(SourceNames)
    THEN [error |-> "IndexError"]
    ELSE [trends |-> IF all_trends(rs) = <<>> THEN <<>>
                     ELSE WithIds(all_trends(rs), LastSourceName(rs), tick),
          source_stats |-> source_stats(rs),
          total_trends |-> Len(all_trends(rs))]

\* the body of enrich_algolia_data after gather: the dict it returns; the id
\* loop reads source_name, unbound (NameError, caught by the except branch of
\* the function) when every result was skipped
enrich_result(rs, tick) ==
    IF all_trends(rs) # <<>> /\ Collected(rs) = {}
    THEN [error |-> "NameError"]
    ELSE [trends |-> IF all_trends(rs) = <<>> THEN <<>>
                     ELSE WithIds(all_trends(rs), LastSourceName(rs), tick),
          source_stats |-> source_stats(rs),
          total_trends |-> Len(all_trends(rs))]

\* "error" in enrichment_result
HasError(result) == "error" \in DOMAIN result

NoResult == [none |-> TRUE]

(***************************************************************************)
(* data_enrichment.py: POST /enrich-trends and its background task.  The   *)
(* background tasks are taken one at a time.                               *)
(***************************************************************************)
Requests == 1..MaxRequests

\* EnrichmentRequest.sources
RequestSources == { None, Some(<<>>), Some(<<Src_Vogue>>) }

\* request.sources or [...]: the default list replaces None and the empty list
SourcesOrDefault(sources) ==
    IF IsNone(sources) \/ Val(sources) = <<>> THEN SourceNames ELSE Val(sources)

\* the dict that enrich_trends returns
enrich_trends(sources) ==
    Returned([success |-> TRUE, status |-> "processing",
              sources |-> SourcesOrDefault(sources)])

\* a route that runs perform_enrichment itself, before it answers
TaskRunnable_BeforeReply(r) == task[r] = "none" /\ replies[r] = NoRet

\* background_tasks.add_task(perform_enrichment, request): the task runs once
\* the response of its request has been sent
TaskRunnable(r) == task[r] = "added" /\ replies[r] # NoRet

\* POST /enrich-trends: the handler adds the background task and returns, and
\* the response is sent
EnrichTrendsRoute(r, sources) ==
    /\ task[r] = "none" /\ replies[r] = NoRet
    /\ \A q \in Requests : q < r => replies[q] # NoRet
    /\ replies' = [replies EXCEPT ![r] = enrich_trends(sources)]
    /\ task' = [task EXCEPT ![r] = "added"]
    /\ UNCHANGED <<agg_vars, facade_vars, mock_vars, rest_vars>>

\* perform_enrichment enters the scraper and enrich_algolia_data starts its
\* five tasks with gather
StartRun(r) ==
    /\ agg_pc \in {"idle", "succeeded", "failed"}
    /\ TaskRunnable(r)
    /\ task' = [task EXCEPT ![r] = "running"]
    /\ agg_pc' = "gathering"
    /\ fetch' = [a \in Adapters |-> NoFetch]
    /\ results' = [a \in Adapters |-> Pending]
    /\ agg_ret' = NoResult
    /\ UNCHANGED <<replies, facade_vars, mock_vars, rest_vars>>

\* one of the three fetching adapters runs to its end, its fetch having one of
\* the given outcomes
WebAdapterRuns(a, outcomes) ==
    /\ agg_pc = "gathering" /\ a \in WebAdapters /\ results[a].kind = "pending"
    /\ \E outcome \in outcomes :
          /\ fetch' = [fetch EXCEPT ![a] = outcome]
          /\ results' = [results EXCEPT ![a] = ListResult(ScrapeWeb(a, outcome))]
    /\ UNCHANGED <<agg_pc, agg_ret, route_vars, facade_vars, mock_vars, rest_vars>>

WebAdapterDone(a) == WebAdapterRuns(a, FetchOutcomes)

\* scrape_instagram_trends / scrape_fast_fashion_trends run to their end
SimulatedAdapterDone(a) ==
    /\ agg_pc = "gathering" /\ a \in Adapters \ WebAdapters
    /\ results[a].kind = "pending"
    /\ results' = [results EXCEPT ![a] =
                      ListResult(IF a = 4 THEN InstagramTrends ELSE FastFashionTrends)]
    /\ UNCHANGED <<agg_pc, fetch, agg_ret, route_vars, facade_vars, mock_vars, rest_vars>>

\* a wait that ends with the first task that ends
GatherDone_FirstCompleted(rs) == \E a \in Adapters : rs[a].kind # "pending"

\* await asyncio.gather(*tasks, return_exceptions=True): every task has ended
GatherDone(rs) == \A a \in Adapters : rs[a].kind # "pending"

\* gather returns once every task has ended; the rest of enrich_algolia_data runs
EnrichReturn ==
    /\ agg_pc = "gathering"
    /\ GatherDone(results)
    /\ \E tick \in 0..Len(all_trends(results)) :
          agg_ret' = enrich_result(results, tick)
    /\ agg_pc' = "returned"
    /\ UNCHANGED <<fetch, results, route_vars, facade_vars, mock_vars, rest_vars>>

\* perform_enrichment: logs the failure if the result has "error", else the success
PerformEnrichmentEnd ==
    /\ agg_pc = "returned"
    /\ agg_pc' = IF HasError(agg_ret) THEN "failed" ELSE "succeeded"
    /\ task' = [r \in Requests |-> IF task[r] = "running" THEN "ended" ELSE task[r]]
    /\ UNCHANGED <<replies, fetch, results, agg_ret, facade_vars, mock_vars, rest_vars>>

(***************************************************************************)
(* scripts/fashion_scraper.py: FashionTrendScraper.  The statements of     *)
(* parse_fashion_articles are modelled in the order they are written.      *)
(***************************************************************************)
category_keywords == <<
    [category |-> "luxury", keywords |-> <<
        <<"l","u","x","u","r","y">>,
        <<"c","o","u","t","u","r","e">>,
        <<"h","a","u","t","e">>,
        <<"p","r","e","m","i","u","m">>,
        <<"e","x","c","l","u","s","i","v","e">>,
        <<"d","e","s","i","g","n","e","r">>,
        <<"h","i","g","h","-","e","n","d">> >>],
    [category |-> "streetwear", keywords |-> <<
        <<"s","t","r","e","e","t","w","e","a","r">>,
        <<"u","r","b","a","n">>,
        <<"c","a","s","u","a","l">>,
        <<"s","t","r","e","e","t">>,
        <<"s","n","e","a","k","e","r","s">>,
        <<"h","o","o","d","i","e">>,
        <<"o","v","e","r","s","i","z","e","d">> >>],
    [category |-> "sustainable", keywords |-> <<
        <<"s","u","s","t","a","i","n","a","b","l","e">>,
        <<"e","c","o","-","f","r","i","e","n","d","l","y">>,
        <<"o","r","g","a","n","i","c">>,
        <<"r","e","c","y","c","l","e","d">>,
        <<"e","t","h","i","c","a","l">>,
        <<"g","r","e","e","n">> >>],
    [category |-> "vintage", keywords |-> <<
        <<"v","i","n","t","a","g","e">>,
        <<"r","e","t","r","o">>,
        <<"c","l","a","s","s","i","c">>,
        <<"h","e","r","i","t","a","g","e">>,
        <<"t","h","r","o","w","b","a","c","k">>,
        <<"n","o","s","t","a","l","g","i","c">> >>],
    [category |-> "minimalist", keywords |-> <<
        <<"m","i","n","i","m","a","l","i","s","t">>,
        <<"m","i","n","i","m","a","l">>,
        <<"c","l","e","a","n">>,
        <<"s","i","m","p","l","e">>,
        <<"u","n","d","e","r","s","t","a","t","e","d">>,
        <<"e","s","s","e","n","t","i","a","l">> >>],
    [category |-> "maximalist", keywords |-> <<
        <<"m","a","x","i","m","a","l","i","s","t">>,
        <<"b","o","l","d">>,
        <<"d","r","a","m","a","t","i","c">>,
        <<"s","t","a","t","e","m","e","n","t">>,
        <<"e","x","t","r","a","v","a","g","a","n","t">>,
        <<"o","r","n","a","t","e">> >>],
    [category |-> "athleisure", keywords |-> <<
        <<"a","t","h","l","e","i","s","u","r","e">>,
        <<"a","t","h","l","e","t","i","c">>,
        <<"s","p","o","r","t","y">>,
        <<"a","c","t","i","v","e","w","e","a","r">>,
        <<"p","e","r","f","o","r","m","a","n","c","e">>,
        <<"g","y","m">> >>],
    [category |-> "formal", keywords |-> <<
        <<"f","o","r","m","a","l">>,
        <<"b","u","s","i","n","e","s","s">>,
        <<"p","r","o","f","e","s","s","i","o","n","a","l">>,
        <<"s","u","i","t">>,
        <<"t","a","i","l","o","r","e","d">>,
        <<"c","o","r","p","o","r","a","t","e">> >>],
    [category |-> "casual", keywords |-> <<
        <<"c","a","s","u","a","l">>,
        <<"e","v","e","r","y","d","a","y">>,
        <<"c","o","m","f","o","r","t","a","b","l","e">>,
        <<"r","e","l","a","x","e","d">>,
        <<"e","a","s","y">>,
        <<"l","a","i","d","-","b","a","c","k">> >>],
    [category |-> "avant-garde", keywords |-> <<
        <<"a","v","a","n","t","-","g","a","r","d","e">>,
        <<"e","x","p","e","r","i","m","e","n","t","a","l">>,
        <<"i","n","n","o","v","a","t","i","v","e">>,
        <<"c","u","t","t","i","n","g","-","e","d","g","e">>,
        <<"a","r","t","i","s","t","i","c">>,
        <<"c","o","n","c","e","p","t","u","a","l">> >>] >>

region_mapping == <<
    [region |-> "North America", keywords |-> <<
        <<"n","e","w"," ","y","o","r","k">>,
        <<"n","y","f","w">>,
        <<"l","a","f","w">>,
        <<"c","a","n","a","d","a">>,
        <<"a","m","e","r","i","c","a","n">>,
        <<"u","s">>,
        <<"u","n","i","t","e","d"," ","s","t","a","t","e","s">> >>],
    [region |-> "Europe", keywords |-> <<
        <<"p","a","r","i","s">>,
        <<"p","f","w">>,
        <<"m","i","l","a","n">>,
        <<"m","f","w">>,
        <<"l","o","n","d","o","n">>,
        <<"l","f","w">>,
        <<"e","u","r","o","p","e","a","n">>,
        <<"f","r","e","n","c","h">>,
        <<"i","t","a","l","i","a","n">>,
        <<"b","r","i","t","i","s","h">> >>],
    [region |-> "Asia Pacific", keywords |-> <<
        <<"t","o","k","y","o">>,
        <<"t","f","w">>,
        <<"s","e","o","u","l">>,
        <<"s","f","w">>,
        <<"s","h","a","n","g","h","a","i">>,
        <<"a","s","i","a","n">>,
        <<"j","a","p","a","n","e","s","e">>,
        <<"k","o","r","e","a","n">>,
        <<"c","h","i","n","e","s","e">> >>],
    [region |-> "Latin America", keywords |-> <<
        <<"s","a","o"," ","p","a","u","l","o">>,
        <<"s","p","f","w">>,
        <<"m","e","x","i","c","o">>,
        <<"b","r","a","z","i","l">>,
        <<"l","a","t","i","n">>,
        <<"s","o","u","t","h"," ","a","m","e","r","i","c","a","n">> >>],
    [region |-> "Middle East", keywords |-> <<
        <<"d","u","b","a","i">>,
        <<"a","b","u","d","h","a","b","i">>,
        <<"m","i","d","d","l","e"," ","e","a","s","t">>,
        <<"a","r","a","b","i","c">>,
        <<"g","u","l","f">> >>],
    [region |-> "Africa", keywords |-> <<
        <<"l","a","g","o","s">>,
        <<"a","f","r","i","c","a">>,
        <<"a","f","r","i","c","a","n">>,
        <<"n","i","g","e","r","i","a","n">>,
        <<"s","o","u","t","h"," ","a","f","r","i","c","a","n">> >>] >>

\* the keys of category_keywords: the category taxonomy
CategoryNames == { category_keywords[i].category : i \in 1..Len(category_keywords) }

\* the keys of region_mapping, and the default region
RegionNames == { region_mapping[i].region : i \in 1..Len(region_mapping) }

\* sum(1 for keyword in keywords if keyword in text_lower)
KeywordScore(keywords, text_lower) ==
    Cardinality({ k \in 1..Len(keywords) : Contains(keywords[k], text_lower) })

\* category_scores after the loop: one entry per category (by its position in
\* category_keywords, which is the insertion order of the dict) of score > 0
category_scores(text_lower) ==
    [i \in { j \in 1..Len(category_keywords) :
                KeywordScore(category_keywords[j].keywords, text_lower) > 0 } |->
        KeywordScore(category_keywords[i].keywords, text_lower)]

\* a max that keeps the last of several greatest entries
MaxKey_Last(scores) ==
    CHOOSE i \in DOMAIN scores :
        /\ \A j \in DOMAIN scores : scores[j] <= scores[i]
        /\ \A j \in DOMAIN scores : j > i => scores[j] < scores[i]

\* max(category_scores, key=category_scores.get): the first key, in insertion
\* order, whose score is the greatest
MaxKey(scores) ==
    CHOOSE i \in DOMAIN scores :
        /\ \A j \in DOMAIN scores : scores[j] <= scores[i]
        /\ \A j \in DOMAIN scores : j < i => scores[j] < scores[i]

identify_category(text) ==
    LET text_lower == Lower(text)
        scores == category_scores(text_lower)
    IN  IF DOMAIN scores # {}
        THEN category_keywords[MaxKey(scores)].category
        ELSE "casual"

\* any(keyword in text_lower for keyword in keywords)
AnyKeyword(keywords, text_lower) ==
    \E k \in 1..Len(keywords) : Contains(keywords[k], text_lower)

\* detected_regions after the loop, in the order of region_mapping
detected_regions(text_lower) ==
    LET Hit(r) == AnyKeyword(r.keywords, text_lower)
        hits == SelectSeq(region_mapping, Hit)
    IN  [i \in 1..Len(hits) |-> hits[i].region]

\* a default that is added to the detected regions instead of replacing none
identify_regions_AddGlobal(text) ==
    detected_regions(Lower(text)) \o <<"Global">>

identify_regions(text) ==
    LET detected == detected_regions(Lower(text))
    IN  IF detected = <<>> THEN <<"Global">> ELSE detected

\* min(a, b)
PyMin(a, b) == IF b < a THEN b ELSE a

\* social_score + influencer_score + brand_score as the exact decimal number,
\* in units of 1/100000: 0.4 * sm/10000 = 4 sm / 100000, 0.3 * ic/100 =
\* 300 ic / 100000, 0.3 * bc/20 = 1500 bc / 100000, each capped
ScoreSum(social_mentions, influencer_count, brand_count) ==
    4 * PyMin(social_mentions, 10000) + 300 * PyMin(influencer_count, 100)
    + 1500 * PyMin(brand_count, 20)

\* round(x, 2) of a float x rounds to the nearest hundredth.  When the decimal
\* sum ends in 5 thousandths the float sum is not that number but a binary
\* neighbour of it, and the side it falls on decides the result.  HalfwayUp
\* holds the capped arguments, among those used in this module, whose float sum
\* falls above the midpoint (CPython, IEEE 754 doubles).  The other midpoints
\* used here fall below it: (0,0,1), (0,5,0), (125,0,20), (125,100,0),
\* (125,100,20) and (10000,100,1).
HalfwayUp ==
    { <<0, 5, 20>>, <<0, 100, 1>>, <<125, 0, 0>>, <<125, 5, 1>>,
      <<5000, 0, 1>>, <<5000, 5, 0>>, <<5000, 5, 20>>, <<5000, 100, 1>>,
      <<10000, 0, 1>>, <<10000, 5, 0>>, <<10000, 5, 20>> }

\* a conversion that drops the thousandths instead of rounding
PyRound2_Truncate(n, capped) == n \div 1000

\* round(x, 2) in hundredths, for the sum n (in 1/100000) of the capped arguments
PyRound2(n, capped) ==
    IF n % 1000 > 500 \/ (n % 1000 = 500 /\ capped \in HalfwayUp)
    THEN n \div 1000 + 1
    ELSE n \div 1000

\* a score whose signals are not capped
calculate_trend_score_Uncapped(social_mentions, influencer_count, brand_count) ==
    PyRound2(4 * social_mentions + 300 * influencer_count + 1500 * brand_count,
             <<social_mentions, influencer_count, brand_count>>)

\* the trend score, in hundredths
calculate_trend_score(social_mentions, influencer_count, brand_count) ==
    PyRound2(ScoreSum(social_mentions, influencer_count, brand_count),
             << PyMin(social_mentions, 10000), PyMin(influencer_count, 100),
                PyMin(brand_count, 20) >>)

\* article_tags[:15]
ArticleTagLimit == 15

\* len(title) < 10
MinTitleLength == 10

Kw_influencer ==
    <<"i","n","f","l","u","e","n","c","e","r">>

Lit_LatestTrendFrom ==
    <<"L","a","t","e","s","t"," ","t","r","e","n","d"," ","f","r","o","m"," ">>

Lit_FashionTrend ==
    <<"F","a","s","h","i","o","n"," ","t","r","e","n","d">>

\* ' '.join(parts)
RECURSIVE JoinSpace(_)
JoinSpace(parts) ==
    IF parts = <<>> THEN <<>>
    ELSE IF Len(parts) = 1 THEN parts[1]
    ELSE parts[1] \o <<" ">> \o JoinSpace(Tail(parts))

\* [tag.get_text(strip=True) for tag in tag_elems if tag.get_text(strip=True)]
TagsOf(article) ==
    LET NonEmpty(t) == t # <<>>
    IN  SelectSeq(article.tags, NonEmpty)

\* len([t for t in tags if 'influencer' in t.lower()])
InfluencerTags(tags) ==
    LET Mentions(t) == Contains(Kw_influencer, Lower(t))
    IN  Len(SelectSeq(tags, Mentions))

\* f"{title} {description} {' '.join(tags)} {brand}"
full_text(title, description, tags, brand) ==
    title \o <<" ">> \o description \o <<" ">> \o JoinSpace(tags) \o <<" ">> \o brand

\* description or f"Latest trend from {brand}" if brand else "Fashion trend":
\* the conditional expression binds weaker than "or"
DescriptionOf(description, brand) ==
    IF brand # <<>>
    THEN (IF description # <<>> THEN description ELSE Lit_LatestTrendFrom \o brand)
    ELSE Lit_FashionTrend

\* f"fashion_{len(results) + 1}_{int(time.time())}": the two parts of the
\* string that vary, which determine it and are determined by it
FashionObjectID(n, ts) == [seq |-> n, ts |-> ts]

\* the article is passed over: no title element, or a title under 10 characters
Skipped(article) ==
    IsNone(article.title) \/ Len(Val(article.title)) < MinTitleLength

\* the trend dict of one article; n is len(results) + 1 and ts is int(time.time())
TrendOf(article, n, ts, source_url) ==
    LET title == Val(article.title)
        tags == TagsOf(article)
        text == full_text(title, article.description, tags, article.brand)
    IN  [objectID |-> FashionObjectID(n, ts),
         name |-> title,
         category |-> identify_category(text),
         description |-> DescriptionOf(article.description, article.brand),
         regions |-> identify_regions(text),
         brand |-> article.brand,
         source |-> source_url,
         trend_score |-> calculate_trend_score(Len(tags) * 100, InfluencerTags(tags),
                                               IF article.brand # <<>> THEN 1 ELSE 0),
         social_mentions |-> Len(tags) * 100,
         influencer_adoptions |-> InfluencerTags(tags),
         tags |-> tags]

\* the loop over the article elements, from element i on, found being the
\* results so far; the clock shows second now up to element number tick and
\* now + 1 after it
RECURSIVE ParseFrom(_, _, _, _, _, _)
ParseFrom(articles, i, found, source_url, now, tick) ==
    IF i > Len(articles) THEN found
    ELSE IF Skipped(articles[i])
    THEN ParseFrom(articles, i + 1, found, source_url, now, tick)
    ELSE ParseFrom(articles, i + 1,
                   Append(found, TrendOf(articles[i], Len(found) + 1,
                                           IF i <= tick THEN now ELSE now + 1,
                                           source_url)),
                   source_url, now, tick)

\* html is given by the elements that find_all matches, in document order
parse_fashion_articles(html, source_url, now, tick) ==
    ParseFrom(PySlice(html, 0, ArticleTagLimit), 1, <<>>, source_url, now, tick)

\* self.websites
websites ==
    << "https://www.vogue.com/fashion", "https://www.vogue.com/runway",
       "https://www.vogue.com/fashion-shows" >>

(***************************************************************************)
(* Inputs of the scraper script.                                           *)
(***************************************************************************)
Txt_VintageLuxury ==
    <<"V","i","n","t","a","g","e"," ","l","u","x","u","r","y">>

Txt_BoldDramatic ==
    <<"B","o","l","d"," ","d","r","a","m","a","t","i","c"," ","l","u","x","u","r","y">>

Txt_CasualStreet ==
    <<"C","a","s","u","a","l"," ","s","t","r","e","e","t"," ","s","t","y","l","e">>

Txt_Upper ==
    <<"P","A","R","I","S"," ","a","n","d"," ","T","O","K","Y","O"," ","C","O","U","T","U","R",
      "E">>

Txt_Business ==
    <<"B","u","s","i","n","e","s","s"," ","s","u","i","t">>

Txt_Plain ==
    <<"S","p","r","i","n","g"," ","l","o","o","k","s">>

Title_Blazer ==
    <<"O","v","e","r","s","i","z","e","d"," ","B","l","a","z","e","r"," ","T","r","e","n","d">>

Title_Short ==
    <<"D","e","n","i","m">>

Title_Couture ==
    <<"P","a","r","i","s"," ","C","o","u","t","u","r","e"," ","W","e","e","k">>

Title_Quiet ==
    <<"Q","u","i","e","t"," ","W","a","r","d","r","o","b","e"," ","N","o","t","e","s">>

Title_Everyday ==
    <<"E","v","e","r","y","d","a","y"," ","B","a","s","i","c","s">>

Tag_oversized ==
    <<"o","v","e","r","s","i","z","e","d">>

Tag_blazer ==
    <<"b","l","a","z","e","r">>

Tag_InfluencerPick ==
    <<"I","n","f","l","u","e","n","c","e","r"," ","p","i","c","k">>

Desc_BoldLooks ==
    <<"B","o","l","d"," ","l","o","o","k","s">>

Brand_Dior ==
    <<"D","i","o","r">>

Brand_Acme ==
    <<"A","c","m","e">>

Texts ==
    { <<>>, Txt_VintageLuxury, Txt_BoldDramatic, Txt_CasualStreet, Txt_Upper,
      Txt_Business, Txt_Plain }

\* an article element: the text of its title element (None without one), of its
\* description element ("" without one), of its tag elements and of its brand
\* element ("" without one)
Art_Blazer ==
    [title |-> Some(Title_Blazer), description |-> <<>>,
     tags |-> <<Tag_oversized, Tag_blazer>>, brand |-> <<>>]

Art_Short ==
    [title |-> Some(Title_Short), description |-> <<>>, tags |-> <<>>, brand |-> <<>>]

Art_NoTitle ==
    [title |-> None, description |-> Desc_BoldLooks, tags |-> <<>>, brand |-> <<>>]

Art_Couture ==
    [title |-> Some(Title_Couture), description |-> Desc_BoldLooks,
     tags |-> <<Tag_InfluencerPick, <<>> >>, brand |-> Brand_Dior]

Art_Quiet ==
    [title |-> Some(Title_Quiet), description |-> <<>>, tags |-> <<>>,
     brand |-> Brand_Acme]

Art_Everyday ==
    [title |-> Some(Title_Everyday), description |-> <<>>, tags |-> <<>>,
     brand |-> <<>>]

Art_Described ==
    [title |-> Some(Title_Everyday), description |-> Desc_BoldLooks, tags |-> <<>>,
     brand |-> <<>>]

Articles ==
    { Art_Blazer, Art_Short, Art_NoTitle, Art_Couture, Art_Quiet, Art_Everyday,
      Art_Described }

\* the articles of the pages that scrape_all_sites is run on
CrawlArticles == { Art_Blazer, Art_Short }

CrawlPages == SeqsUpTo(CrawlArticles, MaxSiteArticles)

\* what fetch_html returns: None after a RequestException, else response.text
\* (the empty text, or a text given by its article elements)
HtmlOutcomes ==
    { [kind |-> "none", page |-> <<>>], [kind |-> "empty", page |-> <<>>] }
    \cup { [kind |-> "text", page |-> p] : p \in CrawlPages }

SocialMentions == {0, 125, 200, 5000, 10000, 10001}
InfluencerCounts == {0, 5, 100, 101}
BrandCounts == {0, 1, 20, 21}

NoArticle == [title |-> None, description |-> <<>>, tags |-> <<>>, brand |-> <<>>]

NoScrCall == [op |-> "none", text |-> <<>>, args |-> <<0, 0, 0>>, article |-> NoArticle]

(***************************************************************************)
(* The scraper script: its methods called directly, and scrape_all_sites.  *)
(***************************************************************************)
ScrIdle == scr_call = NoScrCall /\ crawl_pc = "idle"

CallIdentifyCategory(text) ==
    /\ ScrIdle
    /\ scr_call' = [NoScrCall EXCEPT !.op = "identify_category", !.text = text]
    /\ scr_ret' = Returned(identify_category(text))
    /\ UNCHANGED <<crawl_pc, crawl_site, crawl_clock, crawl_trends>>
    /\ UNCHANGED <<facade_vars, mock_vars, agg_vars, route_vars, life_vars, gem_vars, more_vars>>

CallIdentifyRegions(text) ==
    /\ ScrIdle
    /\ scr_call' = [NoScrCall EXCEPT !.op = "identify_regions", !.text = text]
    /\ scr_ret' = Returned(identify_regions(text))
    /\ UNCHANGED <<crawl_pc, crawl_site, crawl_clock, crawl_trends>>
    /\ UNCHANGED <<facade_vars, mock_vars, agg_vars, route_vars, life_vars, gem_vars, more_vars>>

CallCalculateTrendScore(social_mentions, influencer_count, brand_count) ==
    /\ ScrIdle
    /\ scr_call' = [NoScrCall EXCEPT !.op = "calculate_trend_score",
                       !.args = <<social_mentions, influencer_count, brand_count>>]
    /\ scr_ret' = Returned(calculate_trend_score(social_mentions, influencer_count,
                                                 brand_count))
    /\ UNCHANGED <<crawl_pc, crawl_site, crawl_clock, crawl_trends>>
    /\ UNCHANGED <<facade_vars, mock_vars, agg_vars, route_vars, life_vars, gem_vars, more_vars>>

\* parse_fashion_articles on a page of one article element
CallParseArticle(article) ==
    /\ ScrIdle
    /\ scr_call' = [NoScrCall EXCEPT !.op = "parse_fashion_articles", !.article = article]
    /\ scr_ret' = Returned(parse_fashion_articles(<<article>>, websites[1], 0, 1))
    /\ UNCHANGED <<crawl_pc, crawl_site, crawl_clock, crawl_trends>>
    /\ UNCHANGED <<facade_vars, mock_vars, agg_vars, route_vars, life_vars, gem_vars, more_vars>>

\* scrape_all_sites begins: all_trends = []
CrawlStart ==
    /\ ScrIdle
    /\ crawl_pc' = "crawling"
    /\ crawl_site' = 1
    /\ crawl_trends' = <<>>
    /\ UNCHANGED <<scr_call, scr_ret, crawl_clock>>
    /\ UNCHANGED <<facade_vars, mock_vars, agg_vars, route_vars, life_vars, gem_vars, more_vars>>

\* one turn of the loop over self.websites: fetch_html, and parse_fashion_articles
\* when the html is not None and not empty.  The clock may advance by a second
\* while the page is parsed and again before the next site is fetched.
CrawlSite ==
    /\ crawl_pc = "crawling"
    /\ crawl_site <= Len(websites)
    /\ \E html \in HtmlOutcomes, tick \in 0..MaxSiteArticles, wait \in {0, 1} :
          /\ tick <= Len(html.page)
          /\ LET parsed == crawl_clock + (IF tick < Len(html.page) THEN 1 ELSE 0)
             IN  /\ parsed + wait <= MaxClock
                 /\ crawl_clock' = parsed + wait
          /\ crawl_trends' =
                IF html.kind = "text"
                THEN crawl_trends \o parse_fashion_articles(html.page, websites[crawl_site],
                                                            crawl_clock, tick)
                ELSE crawl_trends
    /\ crawl_site' = crawl_site + 1
    /\ UNCHANGED <<scr_call, scr_ret, crawl_pc>>
    /\ UNCHANGED <<facade_vars, mock_vars, agg_vars, route_vars, life_vars, gem_vars, more_vars>>

\* the loop is over: scrape_all_sites returns all_trends
CrawlReturn ==
    /\ crawl_pc = "crawling"
    /\ crawl_site > Len(websites)
    /\ crawl_pc' = "done"
    /\ UNCHANGED <<scr_call, scr_ret, crawl_site, crawl_clock, crawl_trends>>
    /\ UNCHANGED <<facade_vars, mock_vars, agg_vars, route_vars, life_vars, gem_vars, more_vars>>

(***************************************************************************)
(* scripts/fashion_scraper.py: main(), i.e. FashionTrendScraper() and      *)
(* run().  The direct calls above are calls on a scraper that was          *)
(* constructed with credentials.                                           *)
(***************************************************************************)
\* the attributes that __init__ assigns after the credentials check
ConfiguredAttrs ==
    {"client", "index_name", "websites", "category_keywords", "region_mapping", "headers"}

\* __init__: without credentials it assigns self.client = None and returns
FashionTrendScraper_init(credentials) ==
    IF credentials THEN [client |-> "SearchClientSync", attrs |-> ConfiguredAttrs]
    ELSE [client |-> "None", attrs |-> {"client"}]

\* upload_to_algolia: False without a client or without trends; else the
\* trends are saved one by one, and the save that raises (number fail, 0 for
\* none) ends the upload with False
upload_to_algolia(client, trends, fail) ==
    IF client = "None" \/ trends = <<>> THEN [ok |-> FALSE, saved |-> 0]
    ELSE IF fail = 0 THEN [ok |-> TRUE, saved |-> Len(trends)]
    ELSE [ok |-> FALSE, saved |-> fail - 1]

script_frame ==
    <<facade_vars, mock_vars, agg_vars, route_vars, life_vars, gem_vars, sess_vars,
      api_vars>>

\* scraper = FashionTrendScraper()
Construct(credentials) ==
    /\ scraper_client = "unconstructed"
    /\ scraper_client' = FashionTrendScraper_init(credentials).client
    /\ scraper_attrs' = FashionTrendScraper_init(credentials).attrs
    /\ run_pc' = "constructed"
    /\ UNCHANGED <<run_ret, uploaded, scraper_vars, script_frame>>

\* scraper.run() calls scrape_all_sites, whose loop reads self.websites:
\* AttributeError, which nothing catches, when __init__ did not assign it
RunBegin ==
    /\ run_pc = "constructed" /\ crawl_pc = "idle"
    /\ IF "websites" \in scraper_attrs
       THEN /\ run_pc' = "scraping"
            /\ crawl_pc' = "crawling"
            /\ crawl_site' = 1
            /\ crawl_trends' = <<>>
            /\ UNCHANGED run_ret
       ELSE /\ run_pc' = "ended"
            /\ run_ret' = Raised("AttributeError")
            /\ UNCHANGED <<crawl_pc, crawl_site, crawl_trends>>
    /\ UNCHANGED <<scraper_client, scraper_attrs, uploaded, scr_call, scr_ret,
                   crawl_clock, script_frame>>

\* scrape_all_sites has returned: run uploads the trends if there are any,
\* prints its summary and returns
RunUpload ==
    /\ run_pc = "scraping" /\ crawl_pc = "done"
    /\ \E fail \in 0..Len(crawl_trends) :
          uploaded' = upload_to_algolia(scraper_client, crawl_trends, fail).saved
    /\ run_pc' = "ended"
    /\ run_ret' = Returned("None")
    /\ UNCHANGED <<scraper_client, scraper_attrs, scraper_vars, script_frame>>

\* upload_to_algolia called on its own, with the trends of a page
CallUploadToAlgolia(page) ==
    /\ run_pc = "constructed"
    /\ \E fail \in 0..Len(page) :
          LET trends == IF "websites" \in scraper_attrs
                        THEN parse_fashion_articles(page, websites[1], 0, Len(page))
                        ELSE [i \in 1..Len(page) |-> [name |-> Val(page[i].title)]]
              result == upload_to_algolia(scraper_client, trends, fail)
          IN  /\ uploaded' = result.saved
              /\ run_ret' = Returned(IF result.ok THEN "True" ELSE "False")
    /\ run_pc' = "uploaded"
    /\ UNCHANGED <<scraper_client, scraper_attrs, scraper_vars, script_frame>>

(***************************************************************************)
(* main.py: the shutdown handler, and AlgoliaService.close.                *)
(***************************************************************************)
\* a close that does not test the handle
CloseCalls_Unguarded(client) == 1

\* AlgoliaService.close: the number of close() calls it makes on the handle
CloseCalls(client) == IF client # "None" THEN 1 ELSE 0

\* shutdown_event: the server runs its shutdown handlers once, after it has
\* stopped serving, i.e. when no request handler is running any more
ShutdownEvent ==
    /\ phase = "serving"
    /\ \A c \in Callers : pc[c] = "idle"
    /\ phase' = "stopped"
    /\ closes' = closes + CloseCalls(async_client)
    /\ UNCHANGED <<facade_vars, mock_vars, agg_vars, route_vars, scraper_vars, gem_vars, more_vars>>

(***************************************************************************)
(* gemini_service.py: GeminiService.  A JSON value is a record tagged with *)
(* its Python type; a text that the service returns is a record naming its *)
(* template and the values formatted into it.                              *)
(***************************************************************************)
NoneV == [t |-> "none"]
StrV(s) == [t |-> "str", str |-> s]
NumV(n) == [t |-> "num", num |-> n]
ListV(l) == [t |-> "list", items |-> l]
DictV(d) == [t |-> "dict", entries |-> d]

\* d.get(key, default), for a dict d
Get(d, key, default) == IF key \in DOMAIN d.entries THEN d.entries[key] ELSE default

\* x has a get method
IsDict(x) == x.t = "dict"

\* bool(x)
PyTruthy(x) ==
    IF x.t = "none" THEN FALSE
    ELSE IF x.t = "num" THEN x.num # 0
    ELSE IF x.t = "dict" THEN DOMAIN x.entries # {}
    ELSE IF x.t = "list" THEN x.items # <<>>
    ELSE x.str # ""

\* ', '.join(x) raises TypeError unless x is a list of str (or a str)
JoinRaises(x) == x.t \notin {"list", "str"}

\* f"{x * 100:.0f}" raises TypeError for None and for a list, ValueError for a str
PercentRaises(x) == x.t # "num"

\* f"{x:.2f}", and total += x
NumberRaises(x) == x.t # "num"

\* response.text of a generate_content call that succeeds
UpstreamText == [template |-> "upstream"]

\* what self.model.generate_content(prompt) does
UpstreamOutcomes == {"text", "raise"}

\* __init__: is_configured is bool(api_key), and False when configure raises
GeminiService_init(api_key, configure_raises) ==
    IF api_key # "" THEN ~configure_raises ELSE FALSE

\* _generate_mock_trend_analysis
generate_mock_trend_analysis(trend_data) ==
    IF ~IsDict(trend_data) THEN Raised("AttributeError")
    ELSE LET name == Get(trend_data, "name", StrV("This trend"))
             category == Get(trend_data, "category", StrV("fashion"))
             growth_rate == Get(trend_data, "growth_rate", NumV(0))
             sustainability_score == Get(trend_data, "sustainability_score", NumV(0))
             color_palette == Get(trend_data, "color_palette", ListV(<<>>))
             regions == Get(trend_data, "regions", ListV(<<"Global">>))
         IN  IF JoinRaises(regions) THEN Raised("TypeError")
             ELSE IF PercentRaises(sustainability_score)
             THEN Raised(IF sustainability_score.t = "str" THEN "ValueError" ELSE "TypeError")
             ELSE IF PyTruthy(color_palette) /\ JoinRaises(color_palette)
             THEN Raised("TypeError")
             ELSE Returned([template |-> "trend_analysis", name |-> name,
                            category |-> category, growth_rate |-> growth_rate,
                            regions |-> regions,
                            sustainability_score |-> sustainability_score,
                            color_palette |-> color_palette])

\* _generate_mock_style_recommendations
generate_mock_style_recommendations(preferences, trends) ==
    IF trends = <<>> THEN Returned([template |-> "style_question"])
    ELSE LET trend == trends[1]
         IN  IF ~IsDict(trend) THEN Raised("AttributeError")
             ELSE LET name == Get(trend, "name", StrV("current trends"))
                      category == Get(trend, "category", StrV("fashion"))
                      regions == Get(trend, "regions", ListV(<<"Global">>))
                      color_palette == Get(trend, "color_palette",
                                           ListV(<<"#000000", "#FFFFFF", "#808080">>))
                      brand_adoptions == Get(trend, "brand_adoptions", ListV(<<"icon">>))
                      sustainability_score == Get(trend, "sustainability_score", NumV(50))
                  IN  IF JoinRaises(regions) \/ JoinRaises(color_palette)
                         \/ JoinRaises(brand_adoptions)
                      THEN Raised("TypeError")
                      ELSE IF PercentRaises(sustainability_score)
                      THEN Raised(IF sustainability_score.t = "str"
                                  THEN "ValueError" ELSE "TypeError")
                      ELSE Returned([template |-> "style_recommendations", name |-> name,
                                     category |-> category, regions |-> regions,
                                     color_palette |-> color_palette,
                                     brand_adoptions |-> brand_adoptions,
                                     sustainability_score |-> sustainability_score])

\* _generate_mock_trend_predictions
generate_mock_trend_predictions(trends) ==
    IF trends = <<>> THEN Returned([template |-> "predictions_general"])
    ELSE Returned([template |-> "predictions", count |-> Len(trends)])

\* _generate_general_response
generate_general_response(message, context) == Returned([template |-> "general"])

\* the texts that the service makes up itself
LocalTemplates ==
    {"trend_analysis", "style_question", "style_recommendations",
     "predictions_general", "predictions", "general"}

\* building the prompt of analyze_trend raises
AnalyzePromptRaises(trend_data) ==
    \/ ~IsDict(trend_data)
    \/ JoinRaises(Get(trend_data, "regions", ListV(<<>>)))

\* _format_preferences raises: a preference that is set and cannot be joined
FormatPreferencesRaises(preferences) ==
    \E key \in {"preferred_categories", "preferred_regions", "style_preferences"} :
        /\ key \in DOMAIN preferences.entries
        /\ PyTruthy(preferences.entries[key])
        /\ JoinRaises(preferences.entries[key])

\* _format_trends(trends[:5]) raises
FormatTrendsRaises(trends) ==
    \E i \in 1..Len(PySlice(trends, 0, 5)) :
        \/ ~IsDict(trends[i])
        \/ NumberRaises(Get(trends[i], "trend_score", NumV(0)))

\* _summarize_trends raises
SummarizeTrendsRaises(trends) ==
    \E i \in 1..Len(trends) :
        \/ ~IsDict(trends[i])
        \/ NumberRaises(Get(trends[i], "growth_rate", NumV(0)))

analyze_trend(configured, trend_data, upstream) ==
    IF ~configured THEN generate_mock_trend_analysis(trend_data)
    ELSE IF AnalyzePromptRaises(trend_data) \/ upstream = "raise"
    THEN generate_mock_trend_analysis(trend_data)
    ELSE Returned(UpstreamText)

get_style_recommendations(configured, user_preferences, trends, upstream) ==
    IF ~configured THEN generate_mock_style_recommendations(user_preferences, trends)
    ELSE IF FormatPreferencesRaises(user_preferences) \/ FormatTrendsRaises(trends)
            \/ upstream = "raise"
    THEN generate_mock_style_recommendations(user_preferences, trends)
    ELSE Returned(UpstreamText)

predict_future_trends(configured, current_trends, upstream) ==
    IF ~configured THEN generate_mock_trend_predictions(current_trends)
    ELSE IF SummarizeTrendsRaises(current_trends) \/ upstream = "raise"
    THEN generate_mock_trend_predictions(current_trends)
    ELSE Returned(UpstreamText)

\* "trend" in message.lower()
Kw_trend ==
    <<"t","r","e","n","d">>

AnalysisWords ==
    << <<"a","n","a","l","y","z","e">>,
       <<"a","n","a","l","y","s","i","s">>,
       <<"i","n","s","i","g","h","t","s">>,
       <<"a","b","o","u","t"," ","t","h","i","s"," ","t","r","e","n","d">> >>

StyleWords ==
    << <<"r","e","c","o","m","m","e","n","d">>,
       <<"s","t","y","l","e">>,
       <<"w","h","a","t"," ","s","h","o","u","l","d"," ","i"," ","w","e","a","r">>,
       <<"o","u","t","f","i","t">> >>

PredictionWords ==
    << <<"p","r","e","d","i","c","t">>,
       <<"f","u","t","u","r","e">>,
       <<"n","e","x","t">>,
       <<"c","o","m","i","n","g">>,
       <<"w","i","l","l"," ","b","e">> >>

\* _analyze_intent
analyze_intent(message) ==
    LET message_lower == Lower(message)
    IN  IF AnyKeyword(AnalysisWords, message_lower) THEN "trend_analysis"
        ELSE IF AnyKeyword(StyleWords, message_lower) THEN "style_advice"
        ELSE IF AnyKeyword(PredictionWords, message_lower) THEN "trend_prediction"
        ELSE "general"

\* no operation was called from within chat_response
NoInner == [kind |-> "none"]

\* chat_response under a configured service: the outcome of the operation it
\* calls for the intent (inner), and its own outcome (outer).  An exception
\* anywhere in its try block is answered with the general text.
ChatConfigured(message, context, upstream) ==
    LET trend_data == Get(context, "trend_data", NoneV)
        trends == Get(context, "trends", ListV(<<>>))
        intent == analyze_intent(message)
        Caught(inner) == [inner |-> inner,
                          outer |-> IF IsRaise(inner)
                                    THEN generate_general_response(message, context)
                                    ELSE inner]
        Asked == [inner |-> NoInner,
                  outer |-> IF upstream = "raise"
                            THEN generate_general_response(message, context)
                            ELSE Returned(UpstreamText)]
    IN  IF PyTruthy(trend_data) /\ Contains(Kw_trend, Lower(message))
        THEN (IF AnalyzePromptRaises(trend_data)
              THEN [inner |-> NoInner, outer |-> generate_general_response(message, context)]
              ELSE Asked)
        ELSE IF intent = "trend_analysis" /\ PyTruthy(trends)
        THEN Caught(analyze_trend(TRUE, trends.items[1], upstream))
        ELSE IF intent = "style_advice"
        THEN Caught(get_style_recommendations(TRUE, DictV(<<>>), trends.items, upstream))
        ELSE IF intent = "trend_prediction"
        THEN Caught(predict_future_trends(TRUE, trends.items, upstream))
        ELSE Asked

chat_response(configured, message, context, upstream) ==
    IF ~configured
    THEN [inner |-> NoInner, outer |-> generate_general_response(message, context)]
    ELSE ChatConfigured(message, context, upstream)

Msg_AnalyzeTrend ==
    <<"A","n","a","l","y","z","e"," ","t","h","i","s"," ","t","r","e","n","d">>

Msg_Insights ==
    <<"G","i","v","e"," ","m","e"," ","i","n","s","i","g","h","t","s">>

Msg_Wear ==
    <<"W","h","a","t"," ","s","h","o","u","l","d"," ","I"," ","w","e","a","r">>

Msg_Next ==
    <<"W","h","a","t"," ","i","s"," ","c","o","m","i","n","g"," ","n","e","x","t">>

Msg_Hello ==
    <<"H","e","l","l","o">>

Messages == { Msg_AnalyzeTrend, Msg_Insights, Msg_Wear, Msg_Next, Msg_Hello }

\* trend.model_dump() of a validated Trend: every field has its declared type
ValidDump ==
    DictV([name |-> StrV("Sustainable Luxury Streetwear"), category |-> StrV("streetwear"),
           growth_rate |-> NumV(23), sustainability_score |-> NumV(85),
           trend_score |-> NumV(92), regions |-> ListV(<<"North America", "Europe">>),
           color_palette |-> ListV(<<"#2D5016", "#8B4513">>),
           brand_adoptions |-> ListV(<<"Patagonia">>)])

\* what a client of POST /chat can put into context["trends"]
ClientTrends ==
    { ValidDump,
      DictV([name |-> StrV("Card")]),
      DictV([name |-> StrV("Card"), sustainability_score |-> NoneV]),
      DictV([name |-> StrV("Card"), regions |-> NoneV]),
      StrV("Card") }

\* the hits of search_trends, dumped
DumpLists == { <<>>, <<ValidDump>>, <<ValidDump, ValidDump>> }

\* StyleRecommendationRequest.user_preferences
Preferences ==
    { DictV(<<>>), DictV([preferred_categories |-> ListV(<<"luxury">>)]),
      DictV([preferred_categories |-> NumV(3)]) }

\* the context that chat_with_ai hands over: the trends it fetched, or the
\* client's trends with the first of them as trend_data
ChatContexts ==
    { DictV([trends |-> ListV(l)]) : l \in DumpLists }
    \cup { DictV([trends |-> ListV(<<t>>), trend_data |-> t]) : t \in ClientTrends }

NoGemCall ==
    [op |-> "none", message |-> <<>>, context |-> NoneV, trend_data |-> NoneV,
     trends |-> <<>>, preferences |-> NoneV, upstream |-> "text"]

\* the module is loaded: gemini_service = GeminiService()
GeminiCreate ==
    /\ gem_call.op = "new"
    /\ \E api_key \in {"", "key"}, configure_raises \in BOOLEAN :
          is_configured' = GeminiService_init(api_key, configure_raises)
    /\ gem_call' = NoGemCall
    /\ UNCHANGED <<gem_ret, gem_inner>>
    /\ UNCHANGED <<facade_vars, mock_vars, agg_vars, route_vars, scraper_vars, life_vars, more_vars>>

\* POST /analyze-trend calls analyze_trend with the dump of the trend found
CallAnalyzeTrend(trend_data, upstream) ==
    /\ gem_call.op # "new"
    /\ gem_call' = [NoGemCall EXCEPT !.op = "analyze_trend", !.trend_data = trend_data,
                                     !.upstream = upstream]
    /\ gem_ret' = analyze_trend(is_configured, trend_data, upstream)
    /\ gem_inner' = NoInner
    /\ UNCHANGED is_configured
    /\ UNCHANGED <<facade_vars, mock_vars, agg_vars, route_vars, scraper_vars, life_vars, more_vars>>

\* POST /style-recommendations
CallStyleRecommendations(user_preferences, trends, upstream) ==
    /\ gem_call.op # "new"
    /\ gem_call' = [NoGemCall EXCEPT !.op = "get_style_recommendations",
                                     !.preferences = user_preferences,
                                     !.trends = trends, !.upstream = upstream]
    /\ gem_ret' = get_style_recommendations(is_configured, user_preferences, trends, upstream)
    /\ gem_inner' = NoInner
    /\ UNCHANGED is_configured
    /\ UNCHANGED <<facade_vars, mock_vars, agg_vars, route_vars, scraper_vars, life_vars, more_vars>>

\* GET /predict-trends
CallPredictFutureTrends(current_trends, upstream) ==
    /\ gem_call.op # "new"
    /\ gem_call' = [NoGemCall EXCEPT !.op = "predict_future_trends",
                                     !.trends = current_trends, !.upstream = upstream]
    /\ gem_ret' = predict_future_trends(is_configured, current_trends, upstream)
    /\ gem_inner' = NoInner
    /\ UNCHANGED is_configured
    /\ UNCHANGED <<facade_vars, mock_vars, agg_vars, route_vars, scraper_vars, life_vars, more_vars>>

\* POST /chat
CallChatResponse(message, context, upstream) ==
    /\ gem_call.op # "new"
    /\ gem_call' = [NoGemCall EXCEPT !.op = "chat_response", !.message = message,
                                     !.context = context, !.upstream = upstream]
    /\ gem_ret' = chat_response(is_configured, message, context, upstream).outer
    /\ gem_inner' = chat_response(is_configured, message, context, upstream).inner
    /\ UNCHANGED is_configured
    /\ UNCHANGED <<facade_vars, mock_vars, agg_vars, route_vars, scraper_vars, life_vars, more_vars>>

(***************************************************************************)
(* fashion_scraper_service.py: the HTTP session of the process-wide        *)
(* scraper instance, used by the background tasks of data_enrichment.py.   *)
(* Sessions are numbered in the order of their creation; self.session is   *)
(* the number of the session it refers to, 0 for None.                     *)
(***************************************************************************)
\* the sessions the background tasks can create: one per task
SessionIds == 1..MaxRequests

\* async with fashion_scraper_service as scraper: __aenter__ assigns a new
\* ClientSession to self.session; enrich_algolia_data then builds its
\* coroutines and suspends in gather, the adapters not having run yet
AEnter(r) ==
    /\ sess_pc[r] = "none"
    /\ sess_opened' = sess_opened + 1
    /\ session' = sess_opened + 1
    /\ sess_own' = [sess_own EXCEPT ![r] = sess_opened + 1]
    /\ sess_pc' = [sess_pc EXCEPT ![r] = "queued"]
    /\ UNCHANGED <<sess_closes, sess_bound, sess_inflight, sess_frame>>

\* the adapters of one gather run one after the other up to their first
\* suspension, in the order in which the event loop queued them: each web
\* adapter evaluates self.session.get(url); on a closed session get raises and
\* the adapter returns [] at once
StartFetches(r) ==
    /\ sess_pc[r] = "queued"
    /\ \A q \in Requests : sess_pc[q] = "queued" => sess_own[r] <= sess_own[q]
    /\ sess_pc' = [sess_pc EXCEPT ![r] = "gathering"]
    /\ sess_bound' = [sess_bound EXCEPT ![r] = session]
    /\ sess_inflight' = [sess_inflight EXCEPT ![r] =
                            IF sess_closes[session] > 0 THEN {} ELSE WebAdapters]
    /\ UNCHANGED <<session, sess_opened, sess_closes, sess_own, sess_frame>>

\* the fetch of one adapter ends (answer, or failure caught by the adapter)
FinishFetch(r, a) ==
    /\ sess_pc[r] = "gathering" /\ a \in sess_inflight[r]
    /\ sess_inflight' = [sess_inflight EXCEPT ![r] = @ \ {a}]
    /\ UNCHANGED <<session, sess_opened, sess_closes, sess_pc, sess_own, sess_bound,
                   sess_frame>>

\* gather has returned and the block ends: __aexit__ closes self.session if
\* it is not None
AExit(r) ==
    /\ sess_pc[r] = "gathering" /\ sess_inflight[r] = {}
    /\ sess_pc' = [sess_pc EXCEPT ![r] = "exited"]
    /\ sess_closes' = IF session # 0
                      THEN [sess_closes EXCEPT ![session] = @ + 1]
                      ELSE sess_closes
    /\ UNCHANGED <<session, sess_opened, sess_own, sess_bound, sess_inflight, sess_frame>>

(***************************************************************************)
(* api/v1/trends.py and api/v1/ai.py: the routes that look a trend up or   *)
(* search on behalf of a client, and the facade operations as they read    *)
(* the module-level lists of mock_data.py.                                 *)
(***************************************************************************)
\* SAMPLE_TRENDS, SAMPLE_CATEGORIES and SAMPLE_REGIONS as the module holds them
SampleDataset ==
    [trends |-> SAMPLE_TRENDS, categories |-> SAMPLE_CATEGORIES,
     regions |-> SAMPLE_REGIONS]

\* a facet function that sorts the list it returns in place
DatasetAfter_SortedInPlace(op, d) ==
    IF op = "facet" THEN [d EXCEPT !.regions = <<"Africa">> \o SelectSeq(@, LAMBDA x : x # "Africa")]
    ELSE d

\* the module-level lists after a facade operation: get_mock_trends_response
\* works on SAMPLE_TRENDS.copy() and on new lists, get_mock_trend_by_id and the
\* facet functions only read, and get_combined_stats takes len() of the lists
DatasetAfter(op, d) == d

\* get_facet_values without a handle or in its except branch: the list of
\* the facet itself, [] for any other name
FacetValuesOf(d, facet_name) ==
    IF facet_name = "category" THEN d.categories
    ELSE IF facet_name = "regions" THEN d.regions
    ELSE <<>>

\* get_combined_stats without a handle or in its except branch
get_combined_stats(d) ==
    [trends_total |-> 5, news_total |-> 0,
     categories |-> Len(d.categories), regions |-> Len(d.regions)]

\* what get_trend_by_id can hand to a route: the trend of the fallback or
\* None, or the validated object of the remote index
LookupOutcomes(trend_id) ==
    { GetFallback(trend_id) }
    \cup { GetLive(response) : response \in
              { o \in RemoteGetResponses(trend_id) : ~IsRaise(GetLive(o)) } }

\* raise HTTPException(status_code=...) as the client sees it, and a 200
\* answer; search and lookup tell what the facade call of the handler did
HttpError(status) ==
    [kind |-> "http", status |-> status, search |-> "none", lookup |-> "none"]
HttpOk(search) ==
    [kind |-> "http", status |-> 200, search |-> search, lookup |-> "none"]

\* trends.analyze_trend: the HTTPException(404) is raised inside the try and
\* caught by "except Exception", which raises HTTPException(500)
trends_analyze_trend(lookup) ==
    IF IsRaise(lookup) THEN HttpError(500)
    ELSE IF IsNone(lookup.value) THEN HttpError(500)
    ELSE HttpOk("none")

\* ai.analyze_specific_trend: "except HTTPException: raise" lets the 404 pass;
\* any other exception becomes 500
analyze_specific_trend(lookup, analysis) ==
    IF IsRaise(lookup) THEN HttpError(500)
    ELSE IF IsNone(lookup.value) THEN HttpError(404)
    ELSE IF IsRaise(analysis) THEN HttpError(500)
    ELSE HttpOk("none")

\* [trend.model_dump() for trend in trends_response.hits]
DumpsOf(response) == [i \in 1..Len(response.hits) |-> ValidDump]

\* ai.get_style_recommendations: search_trends("", page=0, per_page=limit) on
\* the fallback path when include_trends, then the recommendations; every
\* exception becomes 500
style_recommendations_route(include_trends, limit, configured, preferences, upstream) ==
    LET search == SearchFallback(Empty, None, None, 0, limit)
    IN  IF ~include_trends
        THEN (IF IsRaise(get_style_recommendations(configured, preferences, <<>>, upstream))
              THEN HttpError(500) ELSE HttpOk("none"))
        ELSE IF IsRaise(search)
        THEN [HttpError(500) EXCEPT !.search = "raised"]
        ELSE IF IsRaise(get_style_recommendations(configured, preferences,
                                                  DumpsOf(search.value), upstream))
        THEN [HttpError(500) EXCEPT !.search = "returned"]
        ELSE HttpOk("returned")

\* trends.get_trends_and_search: limit and page are validated (ge=1), the
\* facade gets page - 1
trends_search_route(limit, page) ==
    LET search == SearchFallback(Empty, None, None, page - 1, limit)
    IN  IF IsRaise(search) THEN [HttpError(500) EXCEPT !.search = "raised"]
        ELSE HttpOk("returned")

\* StyleRecommendationRequest.limit: any integer
StyleLimits == PerPages \cup {5}

\* Query(20, ge=1, le=100) and Query(1, ge=1)
RouteLimits == { n \in PerPages : n >= 1 }
RoutePages == { n + 1 : n \in Pages }

NoApiCall ==
    [op |-> "none", trend_id |-> "", facet_name |-> "", limit |-> 0, page |-> 0,
     include_trends |-> FALSE]

NoApiPrev == [call |-> NoApiCall, ret |-> NoRet]

\* a call ends and its outcome is kept next to that of the call before it
ApiDone(call, outcome) ==
    /\ api_prev' = [call |-> api_call, ret |-> api_ret]
    /\ api_call' = call
    /\ api_ret' = outcome
    /\ dataset' = DatasetAfter(call.op, dataset)
    /\ UNCHANGED <<facade_vars, mock_vars, agg_vars, route_vars, scraper_vars,
                   life_vars, gem_vars, sess_vars, script_vars>>

\* GET /trends/{trend_id}/analysis
TrendsAnalyzeRoute(trend_id) ==
    \E lookup \in LookupOutcomes(trend_id) :
        ApiDone([NoApiCall EXCEPT !.op = "trends_analysis", !.trend_id = trend_id],
                [trends_analyze_trend(lookup) EXCEPT !.lookup =
                    IF IsNone(lookup.value) THEN "not_found" ELSE "found"])

\* POST /ai/analyze-trend
AiAnalyzeRoute(trend_id) ==
    \E lookup \in LookupOutcomes(trend_id), configured \in BOOLEAN,
       upstream \in UpstreamOutcomes :
        ApiDone([NoApiCall EXCEPT !.op = "ai_analysis", !.trend_id = trend_id],
                [analyze_specific_trend(lookup, analyze_trend(configured, ValidDump, upstream))
                    EXCEPT !.lookup = IF IsNone(lookup.value) THEN "not_found" ELSE "found"])

\* POST /ai/style-recommendations
StyleRecommendationsRoute(include_trends, limit) ==
    \E configured \in BOOLEAN, preferences \in Preferences,
       upstream \in UpstreamOutcomes :
        ApiDone([NoApiCall EXCEPT !.op = "style", !.limit = limit,
                                  !.include_trends = include_trends],
                style_recommendations_route(include_trends, limit, configured,
                                            preferences, upstream))

\* GET /trends/
TrendsSearchRoute(limit, page) ==
    ApiDone([NoApiCall EXCEPT !.op = "search", !.limit = limit, !.page = page],
            trends_search_route(limit, page))

\* get_facet_values on the fallback path
FacadeFacetValues(facet_name) ==
    ApiDone([NoApiCall EXCEPT !.op = "facet", !.facet_name = facet_name],
            [kind |-> "facet", values |-> FacetValuesOf(dataset, facet_name)])

\* get_trend_by_id on the fallback path
FacadeTrendById(trend_id) ==
    ApiDone([NoApiCall EXCEPT !.op = "get", !.trend_id = trend_id],
            [kind |-> "get", outcome |-> GetFallback(trend_id)])

\* get_combined_stats on the fallback path
FacadeCombinedStats ==
    ApiDone([NoApiCall EXCEPT !.op = "stats"],
            [kind |-> "stats", stats |-> get_combined_stats(dataset)])

(***************************************************************************)
(* Specifications.                                                         *)
(***************************************************************************)
Init ==
    /\ async_client \in { AlgoliaService_init(configured) : configured \in BOOLEAN }
    /\ pc = [c \in Callers |-> "idle"]
    /\ req = [c \in Callers |-> NoReq]
    /\ ret = [c \in Callers |-> NoRet]
    /\ remote = [c \in Callers |-> "none"]
    /\ path = [c \in Callers |-> "none"]
    /\ after_failure = [c \in Callers |-> FALSE]
    /\ remote_failed = FALSE
    /\ mock_call = NoReq
    /\ mock_ret = NoRet
    /\ agg_pc = "idle"
    /\ fetch = [a \in Adapters |-> NoFetch]
    /\ results = [a \in Adapters |-> Pending]
    /\ agg_ret = NoResult
    /\ replies = [r \in Requests |-> NoRet]
    /\ task = [r \in Requests |-> "none"]
    /\ scr_call = NoScrCall
    /\ scr_ret = NoRet
    /\ crawl_pc = "idle"
    /\ crawl_site = 1
    /\ crawl_clock = 0
    /\ crawl_trends = <<>>
    /\ phase = "serving"
    /\ closes = 0
    /\ is_configured = FALSE
    /\ gem_call = [NoGemCall EXCEPT !.op = "new"]
    /\ gem_ret = NoRet
    /\ gem_inner = NoInner
    /\ session = 0
    /\ sess_opened = 0
    /\ sess_closes = [i \in SessionIds |-> 0]
    /\ sess_pc = [r \in Requests |-> "none"]
    /\ sess_own = [r \in Requests |-> 0]
    /\ sess_bound = [r \in Requests |-> 0]
    /\ sess_inflight = [r \in Requests |-> {}]
    /\ dataset = SampleDataset
    /\ api_call = NoApiCall
    /\ api_ret = NoRet
    /\ api_prev = NoApiPrev
    /\ scraper_client = "unconstructed"
    /\ scraper_attrs = {}
    /\ run_pc = "none"
    /\ run_ret = NoRet
    /\ uploaded = 0

\* the steps of the facade coroutine of caller c
FacadeStep(c, searchArgs, trendIds, facetNames) ==
    \/ \E a \in searchArgs : SearchTrendsCall(c, a)
    \/ SearchTrendsAnswer(c)
    \/ SearchTrendsError(c)
    \/ \E trend_id \in trendIds : GetTrendByIdCall(c, trend_id)
    \/ GetTrendByIdAnswer(c)
    \/ GetTrendByIdError(c)
    \/ \E facet_name \in facetNames : GetFacetValuesCall(c, facet_name)
    \/ GetFacetValuesAnswer(c)
    \/ GetFacetValuesError(c)
    \/ Complete(c)

\* a request handler runs a step of a facade call while the process serves
Serve(c) ==
    /\ phase = "serving"
    /\ FacadeStep(c, FewSearchArgs, FewTrendIds, FewFacetNames)

\* the facade under interleaved callers
Next == \E c \in Callers : FacadeStep(c, FewSearchArgs, FewTrendIds, FewFacetNames)

Spec == Init /\ [][Next]_vars

\* the facade under one caller, over all the arguments
CallNext == FacadeStep(1, SearchArgs, TrendIds, FacetNames)

CallSpec == Init /\ [][CallNext]_vars

\* the process from startup to shutdown: requests are served, then the
\* shutdown handler runs
LifeNext ==
    \/ \E c \in Callers : Serve(c)
    \/ ShutdownEvent

LifeSpec == Init /\ [][LifeNext]_vars

\* the generative assistant: created, then called by the routes of ai.py
GeminiNext ==
    \/ GeminiCreate
    \/ \E upstream \in UpstreamOutcomes : CallAnalyzeTrend(ValidDump, upstream)
    \/ \E user_preferences \in Preferences, trends \in DumpLists,
          upstream \in UpstreamOutcomes :
          CallStyleRecommendations(user_preferences, trends, upstream)
    \/ \E current_trends \in DumpLists, upstream \in UpstreamOutcomes :
          CallPredictFutureTrends(current_trends, upstream)
    \/ \E message \in Messages, context \in ChatContexts, upstream \in UpstreamOutcomes :
          CallChatResponse(message, context, upstream)

GeminiSpec == Init /\ [][GeminiNext]_vars

\* the Synthetic Dataset called directly
MockNext ==
    \/ \E a \in SearchArgs : CallMockSearch(a)
    \/ \E trend_id \in TrendIds : CallMockTrendById(trend_id)
    \/ CallMockCategories
    \/ CallMockRegions

MockSpec == Init /\ [][MockNext]_vars

\* the aggregation run of one request, over all the fetch outcomes
AggNext ==
    \/ \E sources \in RequestSources : EnrichTrendsRoute(1, sources)
    \/ StartRun(1)
    \/ \E a \in Adapters : WebAdapterDone(a)
    \/ \E a \in Adapters : SimulatedAdapterDone(a)
    \/ EnrichReturn
    \/ PerformEnrichmentEnd

AggSpec == Init /\ [][AggNext]_vars

\* the fetch outcomes taken when several requests are followed
FewFetchOutcomes ==
    { [kind |-> "raised", page |-> <<>>], [kind |-> "ok", page |-> <<Some("Denim")>>] }

\* POST /enrich-trends called up to MaxRequests times, and the background tasks
EnrichNext ==
    \/ \E r \in Requests, sources \in RequestSources : EnrichTrendsRoute(r, sources)
    \/ \E r \in Requests : StartRun(r)
    \/ \E a \in Adapters : WebAdapterRuns(a, FewFetchOutcomes)
    \/ \E a \in Adapters : SimulatedAdapterDone(a)
    \/ EnrichReturn
    \/ PerformEnrichmentEnd

EnrichSpec == Init /\ [][EnrichNext]_vars

\* the scraper script: its methods called directly, and scrape_all_sites
ScraperNext ==
    \/ \E text \in Texts : CallIdentifyCategory(text)
    \/ \E text \in Texts : CallIdentifyRegions(text)
    \/ \E social_mentions \in SocialMentions, influencer_count \in InfluencerCounts,
          brand_count \in BrandCounts :
          CallCalculateTrendScore(social_mentions, influencer_count, brand_count)
    \/ \E article \in Articles : CallParseArticle(article)
    \/ CrawlStart
    \/ CrawlSite
    \/ CrawlReturn

ScraperSpec == Init /\ [][ScraperNext]_vars

\* overlapping background tasks on the one scraper instance
SessionNext ==
    \E r \in Requests :
        \/ AEnter(r)
        \/ StartFetches(r)
        \/ \E a \in WebAdapters : FinishFetch(r, a)
        \/ AExit(r)

SessionSpec == Init /\ [][SessionNext]_vars

\* main() of the scraper script, and upload_to_algolia on its own
ScriptNext ==
    \/ \E credentials \in BOOLEAN : Construct(credentials)
    \/ RunBegin
    \/ CrawlSite
    \/ CrawlReturn
    \/ RunUpload
    \/ \E page \in CrawlPages : CallUploadToAlgolia(page)

ScriptSpec == Init /\ [][ScriptNext]_vars

\* route and facade calls, one after the other, answered from the fallback
ApiNext ==
    \/ \E trend_id \in TrendIds : TrendsAnalyzeRoute(trend_id)
    \/ \E trend_id \in TrendIds : AiAnalyzeRoute(trend_id)
    \/ \E include_trends \in BOOLEAN, limit \in StyleLimits :
          StyleRecommendationsRoute(include_trends, limit)
    \/ \E limit \in RouteLimits, page \in RoutePages : TrendsSearchRoute(limit, page)
    \/ \E facet_name \in FacetNames : FacadeFacetValues(facet_name)
    \/ \E trend_id \in TrendIds : FacadeTrendById(trend_id)
    \/ FacadeCombinedStats

ApiSpec == Init /\ [][ApiNext]_vars

(***************************************************************************)
(* Properties of the Index Facade.                                         *)
(***************************************************************************)
\* the causes for which the except branch of a facade call runs
FailureCauses == RemoteErrors \cup {"malformed", "not_found", "bad_facet"}

SearchOutcomeOf(r) ==
    get_mock_trends_response(r.query, r.category, r.region, r.page, r.per_page)

\* C1: every call decides live-vs-fallback on its own.  Without a handle no
\* remote request is made; with a handle every call that has begun has made
\* its remote request, whatever failed before; a returned call was answered
\* by the fallback exactly when there is no handle or its own request raised;
\* and no step changes the handle.
C1_EachCallDecidesAlone ==
    /\ [](\A c \in Callers :
            /\ async_client = "None" => remote[c] = "none"
            /\ (async_client # "None" /\ pc[c] \in {"awaiting", "returned"})
                  => remote[c] # "none"
            /\ pc[c] = "returned" =>
                  /\ path[c] \in {"live", "fallback"}
                  /\ path[c] = "fallback" <=>
                        (async_client = "None" \/ remote[c] \in FailureCauses)
                  /\ path[c] = "live" <=> remote[c] = "ok")
    /\ [][async_client' = async_client]_vars

\* a call that began after a remote failure was served live, while the failed
\* call of another caller has just been answered by the fallback
C1_Witness ==
    \E c, d \in Callers :
        /\ c # d
        /\ pc[c] = "returned" /\ path[c] = "live" /\ after_failure[c]
        /\ pc[d] = "returned" /\ path[d] = "fallback" /\ remote[d] \in RemoteErrors

\* C2: whatever the remote request did, the facade call returns a value and
\* does not raise.
C2_FacadeNeverRaises ==
    \A c \in Callers :
        (pc[c] = "returned" /\ remote[c] # "none") => ret[c].kind = "return"

\* C3: a search whose remote request raised returns what the direct call of
\* the Synthetic Dataset returns for the same arguments, and the responses of
\* the live path and of the Synthetic Dataset have the same fields.
C3_FallbackSameAsDirect ==
    \A c \in Callers :
        (pc[c] = "returned" /\ req[c].op = "search") =>
            /\ remote[c] \in FailureCauses => ret[c] = SearchOutcomeOf(req[c])
            /\ (ret[c].kind = "return" /\ SearchOutcomeOf(req[c]).kind = "return")
                  => DOMAIN ret[c].value = DOMAIN SearchOutcomeOf(req[c]).value

\* the remote request of a search for the second page raised and the caller
\* got the second page of the Synthetic Dataset
C3_Witness ==
    \E c \in Callers :
        /\ pc[c] = "returned" /\ req[c].op = "search" /\ remote[c] = "network"
        /\ req[c].page = 1 /\ req[c].per_page = 2
        /\ ret[c].kind = "return"
        /\ Len(ret[c].value.hits) = 1
        /\ ret[c].value.hits[1].objectID = "trend_003"

(***************************************************************************)
(* Properties of the Synthetic Dataset, stated over the corpus directly.   *)
(***************************************************************************)
\* needle occurs in hay, ignoring case
OccursIgnoringCase(needle, hay) ==
    \E i \in 1..(Len(hay) + 1) :
        /\ i + Len(needle) - 1 <= Len(hay)
        /\ Lower(SubSeq(hay, i, i + Len(needle) - 1)) = Lower(needle)

\* an optional filter is supplied when it is given and not empty
Supplied(o) == o # None /\ Len(Val(o)) > 0

\* the trend satisfies every supplied predicate
TrendMatches(t, query, category, region) ==
    /\ Len(query) > 0 =>
          \/ OccursIgnoringCase(query, t.name)
          \/ OccursIgnoringCase(query, t.description)
          \/ OccursIgnoringCase(query, t.category)
    /\ Supplied(category) => Lower(t.category) = Lower(Val(category))
    /\ Supplied(region) => \E k \in 1..Len(t.regions) : t.regions[k] = Val(region)

\* the corpus positions of the trends that match the request
MatchingPositions(r) ==
    { i \in 1..Len(SAMPLE_TRENDS) :
        TrendMatches(SAMPLE_TRENDS[i], r.query, r.category, r.region) }

\* the corpus position of the k-th matching trend, in declaration order
NthMatch(r, k) ==
    CHOOSE i \in MatchingPositions(r) :
        Cardinality({ j \in MatchingPositions(r) : j < i }) = k - 1

Min(a, b) == IF a < b THEN a ELSE b
Max(a, b) == IF a > b THEN a ELSE b

MockSearchReturned == mock_call.op = "search" /\ mock_ret.kind = "return"

\* C4: for page >= 0 and page_size >= 1 the search returns, with
\* pages = ceil(total / page_size), 0 when total is 0, total the number of
\* matching trends, and at most page_size hits.
C4_PageCountIsCeiling ==
    (mock_call.op = "search" /\ mock_call.page >= 0 /\ mock_call.per_page >= 1) =>
        /\ mock_ret.kind = "return"
        /\ LET v == mock_ret.value
               n == mock_call.per_page
           IN  /\ v.total = Cardinality(MatchingPositions(mock_call))
               /\ v.pages * n >= v.total
               /\ (v.pages - 1) * n < v.total
               /\ v.total = 0 => v.pages = 0
               /\ Len(v.hits) <= n

\* three trends match and two fit a page: two pages
C4_Witness ==
    /\ MockSearchReturned
    /\ mock_call.page = 0 /\ mock_call.per_page = 2
    /\ mock_ret.value.total = 3 /\ mock_ret.value.pages = 2
    /\ Len(mock_ret.value.hits) = 2

\* the tally of a facet over the matching trends: value -> number of matching
\* trends that have the value
CategoryTally(r) ==
    [v \in { SAMPLE_TRENDS[i].category : i \in MatchingPositions(r) } |->
        Cardinality({ i \in MatchingPositions(r) : SAMPLE_TRENDS[i].category = v })]

RegionTally(r) ==
    [v \in UNION { { SAMPLE_TRENDS[i].regions[k] : k \in 1..Len(SAMPLE_TRENDS[i].regions) } :
                   i \in MatchingPositions(r) } |->
        Cardinality({ i \in MatchingPositions(r) :
                        \E k \in 1..Len(SAMPLE_TRENDS[i].regions) :
                            SAMPLE_TRENDS[i].regions[k] = v })]

\* C5: the facet counts of a response (here: of every response to a request
\* with page_size >= 1) are the tallies over the filtered result set of the
\* query, and no value absent from that set is reported.
C5_FacetsTallyFilteredSet ==
    (MockSearchReturned /\ mock_call.per_page >= 1) =>
        /\ mock_ret.value.facets.category = CategoryTally(mock_call)
        /\ mock_ret.value.facets.regions = RegionTally(mock_call)

\* C6: the search matches exactly the corpus trends that satisfy every
\* supplied predicate: total is their number, every hit is one of them, and
\* a first page that is long enough holds all of them.
C6_MatchesSuppliedPredicates ==
    MockSearchReturned =>
        LET v == mock_ret.value
            matching == { SAMPLE_TRENDS[i] : i \in MatchingPositions(mock_call) }
            hits == { v.hits[k] : k \in 1..Len(v.hits) }
        IN  /\ v.total = Cardinality(MatchingPositions(mock_call))
            /\ hits \subseteq matching
            /\ (mock_call.page = 0 /\ mock_call.per_page >= v.total) => hits = matching

\* an upper-case query, a mixed-case category and a region, all supplied,
\* select the one luxury trend
C6_Witness ==
    /\ MockSearchReturned
    /\ mock_call.query = <<"L","U","X","U","R","Y">>
    /\ mock_call.category = Some(<<"L","u","x","u","r","y">>)
    /\ mock_call.region = Some("Global")
    /\ mock_call.page = 0 /\ mock_call.per_page = 20
    /\ mock_ret.value.total = 1
    /\ mock_ret.value.hits[1].objectID = "trend_001"

\* C7: for page >= 0 and page_size >= 1 the hits are the matching trends at
\* positions [page*page_size, page*page_size + page_size) in declaration
\* order; a page past the end has no hits and the same total.
C7_HitsAreThePageSlice ==
    (MockSearchReturned /\ mock_call.page >= 0 /\ mock_call.per_page >= 1) =>
        LET v == mock_ret.value
            start == mock_call.page * mock_call.per_page
            total == Cardinality(MatchingPositions(mock_call))
        IN  /\ v.total = total
            /\ Len(v.hits) = Max(0, Min(total - start, mock_call.per_page))
            /\ \A k \in 1..Len(v.hits) :
                  v.hits[k] = SAMPLE_TRENDS[NthMatch(mock_call, start + k)]

\* the second page of two: the third trend alone
C7_Witness ==
    /\ MockSearchReturned
    /\ mock_call.query = Empty /\ mock_call.category = None /\ mock_call.region = None
    /\ mock_call.page = 1 /\ mock_call.per_page = 2
    /\ mock_ret.value.total = 3
    /\ mock_ret.value.hits = << SAMPLE_TRENDS[3] >>

\* C8: get_trend_by_id never raises; it returns the trend of the requested
\* id or None; on the fallback path, whether reached without a handle or
\* after a failed remote request, it returns the corpus trend of that id if
\* there is one and None otherwise; on the live path the remote object of
\* that id.
C8_GetByIdTrendOrNone ==
    \A c \in Callers :
        (pc[c] = "returned" /\ req[c].op = "get") =>
            /\ ret[c].kind = "return"
            /\ ret[c].value # None => Val(ret[c].value).objectID = req[c].trend_id
            /\ path[c] = "fallback" =>
                  IF \E i \in 1..Len(SAMPLE_TRENDS) :
                        SAMPLE_TRENDS[i].objectID = req[c].trend_id
                  THEN /\ ret[c].value # None
                       /\ \E i \in 1..Len(SAMPLE_TRENDS) :
                             Val(ret[c].value) = SAMPLE_TRENDS[i]
                  ELSE ret[c].value = None
            /\ path[c] = "live" =>
                  /\ ret[c].value # None
                  /\ Val(ret[c].value) \in RemoteObjects

\* the remote request for an id unknown to the corpus failed and the caller got None
C8_Witness ==
    \E c \in Callers :
        /\ pc[c] = "returned" /\ req[c].op = "get" /\ req[c].trend_id = "trend_999"
        /\ remote[c] = "network" /\ path[c] = "fallback"
        /\ ret[c] = Returned(None)

(***************************************************************************)
(* Properties of the Aggregation Pipeline.                                 *)
(***************************************************************************)
\* the adapters whose fetch raised in this run
RaisedAdapters == { a \in Adapters : fetch[a].kind = "raised" }

\* the adapters that failed: the fetch raised or was refused
FailedAdapters == { a \in Adapters : fetch[a].kind \in {"raised", "status"} }

\* the error entries of a result
Errors(result) == IF "errors" \in DOMAIN result THEN result.errors ELSE <<>>

\* trend t of an adapter is among the returned trends
IsReturned(t, result) ==
    \E j \in 1..Len(result.trends) :
        /\ result.trends[j].name = t.name
        /\ result.trends[j].source = t.source
        /\ result.trends[j].category = t.category

\* the run returns the trends of every adapter that did not raise
ReturnsWhatSucceeded ==
    /\ ~HasError(agg_ret)
    /\ \A a \in Adapters \ RaisedAdapters :
          \A k \in 1..Len(results[a].items) : IsReturned(results[a].items[k], agg_ret)

\* C9: when some but not all adapters raise, the run returns the trends of
\* every adapter that did not raise and reports exactly one error entry per
\* adapter that raised.
C9_PartialFailureReported ==
    (agg_pc = "returned" /\ RaisedAdapters # {} /\ RaisedAdapters # Adapters) =>
        /\ ReturnsWhatSucceeded
        /\ Len(Errors(agg_ret)) = Cardinality(RaisedAdapters)

\* the part of C9 that the code keeps: the trends of the adapters that did
\* not raise are returned
C9_TrendsOfTheOthersReturned ==
    (agg_pc = "returned" /\ RaisedAdapters # {} /\ RaisedAdapters # Adapters) =>
        ReturnsWhatSucceeded

WellFormedTrend(t) ==
    /\ t.trend_score >= 0 /\ t.trend_score <= 100
    /\ t.category \in CategoryNames
    /\ t.regions # <<>>

\* C11: every trend record emitted by the ingestion pipeline (by any source
\* adapter of the aggregation run and by the article parser) has trend_score
\* in [0,1], a category of the fixed category taxonomy and a non-empty regions
\* list.  Stated here for the adapters of the aggregation run and its result.
C11_EmittedTrendsWellFormed ==
    /\ \A a \in Adapters : \A k \in 1..Len(results[a].items) :
          WellFormedTrend(results[a].items[k])
    /\ (agg_pc \in {"returned", "succeeded"} /\ ~HasError(agg_ret)) =>
          \A k \in 1..Len(agg_ret.trends) : WellFormedTrend(agg_ret.trends[k])

\* C11, the part of the article parser: every trend that parse_fashion_articles
\* returns or scrape_all_sites collects is well formed.
C11_ParserTrendsWellFormed ==
    /\ scr_call.op = "parse_fashion_articles" =>
          \A k \in 1..Len(scr_ret.value) : WellFormedTrend(scr_ret.value[k])
    /\ \A k \in 1..Len(crawl_trends) : WellFormedTrend(crawl_trends[k])

\* C12: within one aggregation run all emitted trends have pairwise distinct
\* ids, for every number of sources and of trends per source, including when
\* several sources are processed within the same clock second.  Stated here
\* for a run of scrape_all_sites.
C12_IdsPairwiseDistinct ==
    \A i \in 1..Len(crawl_trends) : \A j \in 1..Len(crawl_trends) :
        i # j => crawl_trends[i].objectID # crawl_trends[j].objectID

\* C12, the part of enrich_algolia_data: the trends of a result have pairwise
\* distinct ids.
C12_ServiceIdsPairwiseDistinct ==
    (agg_pc \in {"returned", "succeeded"} /\ ~HasError(agg_ret)) =>
        \A i \in 1..Len(agg_ret.trends) : \A j \in 1..Len(agg_ret.trends) :
            i # j => agg_ret.trends[i].objectID # agg_ret.trends[j].objectID

\* the weighted sum of the capped signals as an exact number, in 1/100000
ExactScore(sm, ic, bc) == 4 * Min(sm, 10000) + 300 * Min(ic, 100) + 1500 * Min(bc, 20)

ScoreCalled == scr_call.op = "calculate_trend_score"

\* C13: for non-negative social_mentions, influencer_count and brand_count,
\* calculate_trend_score returns 0.4*min(sm/10000,1) + 0.3*min(ic/100,1) +
\* 0.3*min(bc/20,1) rounded to 2 decimals: the result is a hundredth nearest
\* to that sum, lies in [0,1], is non-decreasing in each argument, is 1.0 at
\* (10000,100,20) and 0.0 at (0,0,0), and does not change when a signal is
\* raised beyond its cap.
C13_ScoreIsTheCappedWeightedSum ==
    ScoreCalled =>
        LET sm == scr_call.args[1]
            ic == scr_call.args[2]
            bc == scr_call.args[3]
            score == scr_ret.value
        IN  /\ score >= 0 /\ score <= 100
            /\ 1000 * score - ExactScore(sm, ic, bc) <= 500
            /\ ExactScore(sm, ic, bc) - 1000 * score <= 500
            /\ (sm = 10000 /\ ic = 100 /\ bc = 20) => score = 100
            /\ (sm = 0 /\ ic = 0 /\ bc = 0) => score = 0
            /\ \A sm2 \in SocialMentions, ic2 \in InfluencerCounts, bc2 \in BrandCounts :
                  (sm2 >= sm /\ ic2 >= ic /\ bc2 >= bc) =>
                      calculate_trend_score(sm2, ic2, bc2) >= score
            /\ \A sm2 \in SocialMentions, ic2 \in InfluencerCounts, bc2 \in BrandCounts :
                  (/\ Min(sm2, 10000) = Min(sm, 10000)
                   /\ Min(ic2, 100) = Min(ic, 100)
                   /\ Min(bc2, 20) = Min(bc, 20)) =>
                      calculate_trend_score(sm2, ic2, bc2) = score

\* every signal beyond its cap, and the score is 1.0
C13_Witness ==
    /\ ScoreCalled
    /\ scr_call.args = <<10001, 101, 21>>
    /\ scr_ret.value = 100

\* the number of keywords of category i that occur in the text
OccurringKeywords(i, text) ==
    Cardinality({ k \in 1..Len(category_keywords[i].keywords) :
                     OccursIgnoringCase(category_keywords[i].keywords[k], text) })

\* C14: identify_category returns the taxonomy category whose keyword list has
\* the most keywords occurring as case-insensitive substrings of the text; of
\* several categories sharing the maximum the one declared first wins; when no
\* keyword of any category occurs (the empty text included) the result is casual.
C14_CategoryIsFirstWithMostKeywords ==
    scr_call.op = "identify_category" =>
        LET text == scr_call.text
            n == Len(category_keywords)
        IN  IF \A i \in 1..n : OccurringKeywords(i, text) = 0
            THEN scr_ret.value = "casual"
            ELSE \E i \in 1..n :
                    /\ scr_ret.value = category_keywords[i].category
                    /\ \A j \in 1..n : OccurringKeywords(j, text) <= OccurringKeywords(i, text)
                    /\ \A j \in 1..(i - 1) :
                          OccurringKeywords(j, text) < OccurringKeywords(i, text)

\* two categories share the maximum and the first declared is returned
C14_Witness ==
    /\ scr_call.op = "identify_category"
    /\ \E i \in 1..Len(category_keywords) : \E j \in (i + 1)..Len(category_keywords) :
          /\ OccurringKeywords(i, scr_call.text) > 0
          /\ OccurringKeywords(j, scr_call.text) = OccurringKeywords(i, scr_call.text)
          /\ \A m \in 1..Len(category_keywords) :
                OccurringKeywords(m, scr_call.text) <= OccurringKeywords(i, scr_call.text)
          /\ scr_ret.value = category_keywords[i].category

\* the regions that have a keyword occurring in the text
MatchingRegions(text) ==
    { region_mapping[i].region : i \in { j \in 1..Len(region_mapping) :
          \E k \in 1..Len(region_mapping[j].keywords) :
              OccursIgnoringCase(region_mapping[j].keywords[k], text) } }

\* C15: identify_regions returns exactly the regions that have at least one
\* keyword occurring as a case-insensitive substring of the text, and the
\* single region Global when no region matches (the empty text included); the
\* result is never empty and never holds Global together with another region.
C15_RegionsAreTheMatchingOnes ==
    scr_call.op = "identify_regions" =>
        LET regions == scr_ret.value
            returned == { regions[i] : i \in 1..Len(regions) }
        IN  /\ regions # <<>>
            /\ Cardinality(returned) = Len(regions)
            /\ IF MatchingRegions(scr_call.text) = {}
               THEN regions = <<"Global">>
               ELSE returned = MatchingRegions(scr_call.text)
            /\ "Global" \in returned => returned = {"Global"}

\* a text that names two regions
C15_Witness ==
    /\ scr_call.op = "identify_regions"
    /\ Cardinality(MatchingRegions(scr_call.text)) = 2
    /\ Len(scr_ret.value) = 2

BlazerParsed == scr_call.op = "parse_fashion_articles" /\ scr_call.article = Art_Blazer

\* C16, as claimed: ingesting the fragment with title "Oversized Blazer Trend",
\* tags ["oversized", "blazer"], no description and no brand yields a trend
\* whose category is casual and whose trend_score is 0.01.
C16_BlazerIsCasual ==
    BlazerParsed =>
        /\ Len(scr_ret.value) = 1
        /\ scr_ret.value[1].category = "casual"
        /\ scr_ret.value[1].trend_score = 1

\* C16, amended: ingesting the fragment with title "Oversized Blazer Trend",
\* tags ["oversized", "blazer"], no description and no brand yields a trend
\* whose category is streetwear ("oversized" is a streetwear keyword) and whose
\* trend_score is 0.01 (social_mentions = 200, no influencer or brand
\* contribution).
C16_BlazerIsStreetwear ==
    BlazerParsed =>
        /\ Len(scr_ret.value) = 1
        /\ scr_ret.value[1].category = "streetwear"
        /\ scr_ret.value[1].trend_score = 1
        /\ scr_ret.value[1].social_mentions = 200
        /\ scr_ret.value[1].influencer_adoptions = 0
        /\ scr_ret.value[1].brand = <<>>

C16_Witness ==
    /\ BlazerParsed
    /\ scr_ret.kind = "return"
    /\ Len(scr_ret.value) = 1
    /\ scr_ret.value[1].name = Title_Blazer

(***************************************************************************)
(* Properties of the enrichment trigger.                                   *)
(***************************************************************************)
\* the reply "accepted": a value, not an exception, whose status is processing
Accepted(reply) ==
    /\ reply.kind = "return"
    /\ reply.value.success
    /\ reply.value.status = "processing"

IsLocalTemplate(r) == r.kind = "return" /\ r.value.template \in LocalTemplates

\* C19: whenever the generative assistant is unconfigured or its upstream call
\* raises, analyze_trend, get_style_recommendations, predict_future_trends and
\* chat_response return locally generated template text and never raise to the
\* caller; an operation that chat_response calls is held to the same.
C19_FallbackNeverRaises ==
    (/\ gem_call.op \in {"analyze_trend", "get_style_recommendations",
                         "predict_future_trends", "chat_response"}
     /\ (~is_configured \/ gem_call.upstream = "raise")) =>
        /\ IsLocalTemplate(gem_ret)
        /\ gem_inner # NoInner => IsLocalTemplate(gem_inner)

\* C19, the part that holds: what the routes receive from the four operations
\* in these cases is always a local template text, never an exception.
C19_RoutesGetTemplateText ==
    (/\ gem_call.op \in {"analyze_trend", "get_style_recommendations",
                         "predict_future_trends", "chat_response"}
     /\ (~is_configured \/ gem_call.upstream = "raise")) =>
        IsLocalTemplate(gem_ret)

(***************************************************************************)
(* Properties of the concurrent fetches.                                   *)
(***************************************************************************)
\* the number of trends that the adapters of the run have produced
ProducedCount ==
    Len(results[1].items) + Len(results[2].items) + Len(results[3].items)
    + Len(results[4].items) + Len(results[5].items)

\* C20: an aggregation run starts every adapter concurrently and completes
\* only after every adapter has completed or failed (no early return, no
\* cancellation of the others when one fails or is slow); for every completion
\* order of the adapters, the result contains the trends of every adapter
\* that completed successfully.
C20_GatherWaitsForEveryAdapter ==
    /\ [](agg_pc \in {"returned", "succeeded", "failed"} =>
            /\ \A a \in Adapters : results[a].kind = "list"
            /\ ~HasError(agg_ret)
            /\ Len(agg_ret.trends) = ProducedCount
            /\ \A a \in Adapters : \A k \in 1..Len(results[a].items) :
                  IsReturned(results[a].items[k], agg_ret))
    /\ [][(agg_pc # "gathering" /\ agg_pc' = "gathering") =>
             \A a \in Adapters : results'[a] = Pending]_vars
    /\ [][(agg_pc = "gathering" /\ agg_pc' = "gathering") =>
             \A a \in Adapters :
                 /\ results[a].kind # "pending" => results'[a] = results[a]
                 /\ results'[a].kind \in {"pending", "list"}]_vars

\* the first adapter failed, the second and the third delivered articles, and
\* the run returned the trends of the four adapters that succeeded
C20_Witness ==
    /\ agg_pc = "returned"
    /\ fetch[1].kind = "raised"
    /\ Len(results[2].items) = MaxArticles
    /\ Len(results[3].items) = 1
    /\ Len(agg_ret.trends) = MaxArticles + 5

(***************************************************************************)
(* Properties of the session of overlapping background tasks.              *)
(***************************************************************************)
\* the background tasks that have entered the scraper and not yet left it
Overlapping == { r \in Requests : sess_pc[r] \in {"queued", "gathering"} }

\* C21: concurrent aggregation runs share no mutable state: when two
\* enrichment background tasks overlap on the process-wide scraper instance,
\* neither task's HTTP session is replaced or closed by the other while it
\* still has adapter fetches in flight, and every session that is opened is
\* closed exactly once.
C21_SessionsNotShared ==
    /\ \A r \in Overlapping : session = sess_own[r]
    /\ \A r \in Requests :
          sess_inflight[r] # {} => sess_bound[r] = sess_own[r] /\ sess_closes[sess_bound[r]] = 0
    /\ (\A r \in Requests : sess_pc[r] = "exited") =>
          \A i \in 1..sess_opened : sess_closes[i] = 1

(***************************************************************************)
(* Properties of the result of an aggregation run.                         *)
(***************************************************************************)
\* the run has returned its result dict
RunReturned == agg_pc = "returned" /\ ~HasError(agg_ret)

\* the number of trends that the adapters before adapter a have produced
RECURSIVE BlockStart(_)
BlockStart(a) == IF a = 1 THEN 0 ELSE BlockStart(a - 1) + Len(results[a - 1].items)

\* the sum of the statistics entries
RECURSIVE StatsSum(_, _)
StatsSum(stats, names) ==
    IF names = {} THEN 0
    ELSE LET n == CHOOSE x \in names : TRUE
         IN  stats[n] + StatsSum(stats, names \ {n})

\* the statistics count what the adapters produced, and the total is the
\* length of the trends and the sum of the statistics
StatsCountReturnedTrends ==
    /\ \A a \in Adapters :
          SourceNames[a] \in DOMAIN agg_ret.source_stats =>
              agg_ret.source_stats[SourceNames[a]] = Len(results[a].items)
    /\ agg_ret.total_trends = Len(agg_ret.trends)
    /\ agg_ret.total_trends =
          StatsSum(agg_ret.source_stats, DOMAIN agg_ret.source_stats)

C22_StatsCountsAndTotalAgree == RunReturned => StatsCountReturnedTrends

\* the adapter that produced the trend at position k of the returned trends
ProducerOf(k) ==
    CHOOSE a \in Adapters : BlockStart(a) < k /\ k <= BlockStart(a) + Len(results[a].items)

\* the sequence numbers count the batch from 0 and the timestamps never go back
IdsNumberTheBatch ==
    \A k \in 1..Len(agg_ret.trends) :
        /\ agg_ret.trends[k].objectID.seq = k - 1
        /\ k > 1 => agg_ret.trends[k - 1].objectID.ts <= agg_ret.trends[k].objectID.ts

\* C23: the id assigned to each trend in an aggregation run combines the name
\* of the source that produced that trend, a sequence number that strictly
\* increases through the batch, and the ingestion timestamp: for every emitted
\* trend the source name embedded in its id is that trend's own source.
C23_IdNamesOwnSource ==
    RunReturned =>
        /\ IdsNumberTheBatch
        /\ \A k \in 1..Len(agg_ret.trends) :
              agg_ret.trends[k].objectID.source
                  \in { Lower(SourceNames[ProducerOf(k)]), Lower(agg_ret.trends[k].source) }

\* the sequence number and the timestamp are as claimed
C23_IdSequenceAndTimestamp == RunReturned => IdsNumberTheBatch

\* the returned trend is the trend the adapter produced, with its id added
SameTrend(returned, produced) ==
    /\ returned.name = produced.name
    /\ returned.category = produced.category
    /\ returned.source = produced.source
    /\ returned.trend_score = produced.trend_score
    /\ returned.regions = produced.regions

\* C26: in the trends sequence returned by an aggregation run, the trends of
\* each source form one contiguous block in which they appear in the order
\* that source's adapter produced them, for every completion order of the
\* concurrent adapters.
C26_BlocksKeepAdapterOrder ==
    RunReturned =>
        \A a \in Adapters : \A j \in 1..Len(results[a].items) :
            /\ BlockStart(a) + j <= Len(agg_ret.trends)
            /\ SameTrend(agg_ret.trends[BlockStart(a) + j], results[a].items[j])

\* the first adapter produced two different trends and the second one, and the
\* run has returned
C26_Witness ==
    /\ RunReturned
    /\ Len(results[1].items) = 2
    /\ results[1].items[1].name # results[1].items[2].name
    /\ Len(results[2].items) = 1
    /\ Len(agg_ret.trends) = 7

(***************************************************************************)
(* Properties of the title threshold.                                      *)
(***************************************************************************)
\* the articles of a page that the parser does not skip
RECURSIVE KeptArticles(_)
KeptArticles(page) ==
    IF page = <<>> THEN <<>>
    ELSE (IF Skipped(Head(page)) THEN <<>> ELSE <<Head(page)>>) \o KeptArticles(Tail(page))

\* C24: a raw fragment whose extracted title is shorter than 10 characters
\* never becomes a trend: no trend emitted by the ingestion pipeline (article
\* parser or any aggregation adapter) has a name shorter than 10 characters,
\* and rejecting a fragment does not stop the remaining fragments of the same
\* source from being processed.  Stated here for the aggregation adapters.
C24_NoShortNamesFromAdapters ==
    /\ \A a \in Adapters : \A k \in 1..Len(results[a].items) :
          Len(results[a].items[k].name) >= MinTitleLength
    /\ RunReturned =>
          \A k \in 1..Len(agg_ret.trends) : Len(agg_ret.trends[k].name) >= MinTitleLength

\* C24, the part of the article parser: its trends have names of at least 10
\* characters, and the trends of a page are those of all its articles that
\* are not skipped, in their order, wherever the skipped ones stand.
C24_ParserSkipsShortTitlesOnly ==
    /\ scr_call.op = "parse_fashion_articles" =>
          \A k \in 1..Len(scr_ret.value) : Len(scr_ret.value[k].name) >= MinTitleLength
    /\ \A k \in 1..Len(crawl_trends) : Len(crawl_trends[k].name) >= MinTitleLength
    /\ \A page \in CrawlPages :
          LET trends == parse_fashion_articles(page, websites[1], 0, Len(page))
              kept == KeptArticles(page)
          IN  /\ Len(trends) = Len(kept)
              /\ \A k \in 1..Len(kept) : trends[k].name = Val(kept[k].title)

NotFoundIs404 ==
    /\ api_ret.lookup = "not_found" => api_ret.status = 404
    /\ api_ret.status = 404 => api_ret.lookup = "not_found"

\* C27: the trend analysis route answers 404 (not found) when the facade
\* returns no trend for the requested id, and answers 500 only when an
\* unexpected error occurs; a not-found lookup is never reported as a server
\* error.
C27_NotFoundIsNotServerError ==
    api_call.op \in {"trends_analysis", "ai_analysis"} => NotFoundIs404

\* C27, the route of ai.py alone
C27_AiRouteNotFoundIs404 == api_call.op = "ai_analysis" => NotFoundIs404

\* C29: for every call that a route can make to search_trends on the fallback
\* path, including the style-recommendation route whose caller-supplied limit
\* is passed as per_page without a range check (so per_page may be 0), the
\* fallback search returns a response and does not raise.
C29_RouteSearchesNeverRaise ==
    api_call.op \in {"style", "search"} => api_ret.search # "raised"

\* C29, the routes that validate their limit
C29_ValidatedRouteSearchesNeverRaise ==
    api_call.op = "search" => api_ret.search = "returned"

(***************************************************************************)
(* Properties of the scraper script without credentials.                   *)
(***************************************************************************)
\* C28: when the remote backend credentials are absent, constructing the
\* stand-alone scraper and calling run() terminates without raising and
\* uploads nothing: scraping and classification do not depend on the remote
\* client being configured, and upload_to_algolia returns False when there is
\* no client.
C28_RunWithoutCredentials ==
    scraper_client = "None" =>
        /\ uploaded = 0
        /\ run_pc = "ended" => run_ret = Returned("None")
        /\ run_pc = "uploaded" => run_ret = Returned("False")

\* C28, the part of upload_to_algolia: without a client nothing is saved and
\* the function returns False
C28_NoUploadWithoutClient ==
    scraper_client = "None" =>
        /\ uploaded = 0
        /\ run_pc = "uploaded" => run_ret = Returned("False")

(***************************************************************************)
(* Properties of the description of a parsed article.                      *)
(***************************************************************************)
\* the article of the call was parsed into a trend
ArticleParsed ==
    /\ scr_call.op = "parse_fashion_articles"
    /\ Len(scr_ret.value) = 1

\* C30: for every parsed article, the trend's description is the extracted
\* description whenever that description is non-empty, whether or not a brand
\* was found; the placeholder texts ("Latest trend from <brand>" / "Fashion
\* trend") are used only when the extracted description is empty.
C30_DescriptionKeptWhenPresent ==
    ArticleParsed =>
        scr_ret.value[1].description =
            IF scr_call.article.description # <<>> THEN scr_call.article.description
            ELSE IF scr_call.article.brand # <<>>
            THEN Lit_LatestTrendFrom \o scr_call.article.brand
            ELSE Lit_FashionTrend

\* C30, the articles with a brand: the description is kept, and the brand
\* placeholder stands in for an empty one
C30_DescriptionKeptWithBrand ==
    (ArticleParsed /\ scr_call.article.brand # <<>>) =>
        scr_ret.value[1].description =
            IF scr_call.article.description # <<>> THEN scr_call.article.description
            ELSE Lit_LatestTrendFrom \o scr_call.article.brand

====
